---- MODULE Spec2Model ----
(***************************************************************************)
(* ImgSearch: the vector store (imgsearch/storage.py, VectorDB over an     *)
(* hnswlib Index and a bidict), the search admission gate and the          *)
(* ingestion pipeline of the RPC service (imgsearch/server.py).            *)
(*                                                                         *)
(* The specifications of the module:                                       *)
(*   Spec        the operations of one VectorDB, called one at a time      *)
(*   SpecNoRebuild  the same store, add and delete(rebuild=False) only     *)
(*   SpecBatch   the same store, add_items with its arguments, and delete  *)
(*   SpecQuery   the same store, add_item, delete with its keys, and search *)
(*   SpecFiles   files put into a store's directory, and load_db           *)
(*   SpecCrash   the same store, with a process that stops inside save()   *)
(*   SpecDrop    handle_drop_db beside the ingestion of one store          *)
(*   SpecServer  server processes calling Server.run() on one directory    *)
(*   SpecRWLock  threads of the ifinder service on its ReadWriteLock       *)
(*   SpecSearch  threads calling RPCService.handle_search                  *)
(*   SpecIngest  producers, the bounded queue, the worker and shutdown     *)
(*   SpecRunning  SpecIngest without the shutdown                          *)
(*   FairRunning  SpecRunning with the worker thread scheduled fairly      *)
(*   FairIngest  SpecIngest with the worker thread scheduled fairly        *)
(*   SpecConc    threads calling one VectorDB concurrently, under its RLock *)
(*   SpecRegistry  threads calling RPCService._get_db                      *)
(***************************************************************************)
EXTENDS Integers, Sequences, FiniteSets, TLC

VARIABLES
    index,      \* VectorDB.index: the hnswlib Index
    mapping,    \* VectorDB.mapping: the bidict, [fwd, inv]
    disk,       \* index.db and mapping.db: [has_index, index, has_mapping, mapping]
    db_dir,     \* whether the directory of the store exists
    last,       \* the last Store call: operation, flag, outcome
    batch,      \* the labels and features of the add_items call under study
    query,      \* the arguments of the last search and what the index gave it
    sem,        \* RPCService.search_semaphore: available permits
    spc,        \* per search thread: position in handle_search
    spend,      \* per search thread: the value on its way out through finally
    sres,       \* per search thread: what its last handle_search returned
    sadm,       \* per search thread: whether its acquire succeeded
    image_queue,\* RPCService.image_queue: <<label, db_name>> items
    batches,    \* _process_queue's local batches: db_name -> labels
    ppc,        \* per producer: position in handle_add_images
    pimgs,      \* per producer: the items of its request not yet put
    pcount,     \* per producer: queued_count, the value returned
    committed,  \* db_name -> labels the worker added to that store
    phase,      \* the server process: "running", "stopping", "exited"
    handed,     \* the batches the step just taken gave to _process_images
    wpc,        \* the worker thread: "run", "dead" once an exception left its loop
    wlock,      \* VectorDB.wlock, the RLock: [owner, count]
    calls,      \* per caller thread: its call on the VectorDB and where it is
    databases,  \* RPCService.databases: db_name -> instance (0: not registered)
    created,    \* the VectorDB instances constructed so far
    getdb,      \* per thread: its call of _get_db: [pc, db_name, db]
    pid_file,   \* isearch.pid: the pid written in it, 0 if there is no file
    uds,        \* the Unix socket file: the process that bound it, 0 if absent
    srv,        \* per server process: what its Server.run() has come to
    rw_mutex,   \* ReadWriteLock._read_ready's lock: its holder, 0 if free
    readers,    \* ReadWriteLock._readers
    rwpc        \* per ifinder thread: its position in the lock's methods

storeVars == <<index, mapping, disk, db_dir, last, batch, query>>
searchVars == <<sem, spc, spend, sres, sadm>>
ingestVars == <<image_queue, batches, ppc, pimgs, pcount, committed, phase, handed, wpc>>
concVars == <<wlock, calls>>
regVars == <<databases, created, getdb>>
procVars == <<pid_file, uds, srv>>
rwVars == <<rw_mutex, readers, rwpc>>
vars == <<index, mapping, disk, db_dir, last, batch, query, sem, spc, spend, sres, sadm,
          image_queue, batches, ppc, pimgs, pcount, committed, phase, handed, wpc,
          wlock, calls, databases, created, getdb, pid_file, uds, srv,
          rw_mutex, readers, rwpc>>

(***************************************************************************)
(* Bounds of the model.  CAPACITY and BATCH_SIZE stand for cfg.CAPACITY    *)
(* (10000) and cfg.BATCH_SIZE (100), scaled down so that growth, a full    *)
(* queue and an exhausted gate are reached.                                *)
(***************************************************************************)
CAPACITY == 2
BATCH_SIZE == 2
MaxSlots == 3
MaxBatch == 2
NBatch == 2
NThreads == 3
NProducers == 1
NCallers == 2
MaxInstances == 3
NServers == 3
NLockThreads == 3

Labels == {"a", "b", "c"}
Vectors == {1, -1}
Rank == [l \in Labels |-> CASE l = "a" -> 1 [] l = "b" -> 2 [] l = "c" -> 3]

(***************************************************************************)
(* Python containers.  A dict is a sequence of <<key, value>> pairs in     *)
(* insertion order.                                                        *)
(***************************************************************************)
Range(s) == {s[i] : i \in DOMAIN s}

DKeys(d) == {d[i][1] : i \in DOMAIN d}

DHas(d, k) == k \in DKeys(d)

DGet(d, k) == d[CHOOSE i \in DOMAIN d : d[i][1] = k][2]

DPut(d, k, v) ==
    IF DHas(d, k)
    THEN [i \in DOMAIN d |-> IF d[i][1] = k THEN <<k, v>> ELSE d[i]]
    ELSE Append(d, <<k, v>>)

DDel(d, k) == SelectSeq(d, LAMBDA p : p[1] # k)

KeySeq(d) == [i \in DOMAIN d |-> d[i][1]]

SeqsUpTo(S, n) == UNION {[1..m -> S] : m \in 0..n}

\* sorted(set of labels): ascending
RECURSIVE Sorted(_)
Sorted(S) ==
    IF S = {} THEN <<>>
    ELSE LET m == CHOOSE x \in S : \A y \in S : Rank[x] <= Rank[y]
         IN <<m>> \o Sorted(S \ {m})

(***************************************************************************)
(* bidict[int, str]                                                        *)
(***************************************************************************)
EmptyMapping == [fwd |-> <<>>, inv |-> <<>>]

\* a put that forgets the inverse entry of the label it replaces
BidictSetKeepsOldInverse(m, k, v) ==
    IF DHas(m.inv, v) /\ DGet(m.inv, v) # k
    THEN [raised |-> "ValueDuplicationError", mapping |-> m]
    ELSE [raised |-> "", mapping |-> [fwd |-> DPut(m.fwd, k, v), inv |-> DPut(m.inv, v, k)]]

\* self.mapping[k] = v   (on_dup: key -> drop old, value -> raise)
BidictSet(m, k, v) ==
    IF DHas(m.inv, v) /\ DGet(m.inv, v) # k
    THEN [raised |-> "ValueDuplicationError", mapping |-> m]
    ELSE IF DHas(m.fwd, k)
    THEN LET old == DGet(m.fwd, k)
         IN IF old = v
            THEN [raised |-> "", mapping |-> m]
            ELSE [raised |-> "",
                  mapping |-> [fwd |-> DPut(m.fwd, k, v),
                               inv |-> DPut(DDel(m.inv, old), v, k)]]
    ELSE [raised |-> "",
          mapping |-> [fwd |-> Append(m.fwd, <<k, v>>), inv |-> Append(m.inv, <<v, k>>)]]

\* del self.mapping[k]
BidictDel(m, k) ==
    IF ~DHas(m.fwd, k)
    THEN [raised |-> "KeyError", mapping |-> m]
    ELSE [raised |-> "",
          mapping |-> [fwd |-> DDel(m.fwd, k), inv |-> DDel(m.inv, DGet(m.fwd, k))]]

(***************************************************************************)
(* hnswlib.Index(space='cosine'), allow_replace_deleted=True.              *)
(* slots: the elements by internal id, each with its external label (the   *)
(* VectorDB key), its deleted mark and its vector; lookup: label_lookup_.  *)
(***************************************************************************)
\* label_lookup_ is an unordered map: a function from labels to internal ids
FHas(f, k) == k \in DOMAIN f

FPut(f, k, v) == [x \in DOMAIN f \cup {k} |-> IF x = k THEN v ELSE f[x]]

FDel(f, k) == [x \in DOMAIN f \ {k} |-> f[x]]

new_index(max_elements) ==
    [slots |-> <<>>, lookup |-> [k \in {} |-> 0], max_elements |-> max_elements]

element_count(ix) == Len(ix.slots)

\* deleted_elements: the internal ids an insert with replace_deleted may reuse
Vacant(ix) == {i \in DOMAIN ix.slots : ix.slots[i].deleted}

\* the keys a query or get_items can reach: in label_lookup_ and not marked deleted
LiveKeys(ix) == {k \in DOMAIN ix.lookup : ~ix.slots[ix.lookup[k]].deleted}

\* cur_element_count - num_deleted
LiveCount(ix) == Cardinality({i \in DOMAIN ix.slots : ~ix.slots[i].deleted})

\* addPoint(data, label, level=-1): update in place or take a fresh slot
AddPointPlain(ix, vec, label) ==
    IF FHas(ix.lookup, label)
    THEN LET e == ix.lookup[label]
         IN IF ix.slots[e].deleted
            THEN [raised |-> "RuntimeError", index |-> ix]
            ELSE [raised |-> "",
                  index |-> [ix EXCEPT !.slots[e].vec = vec]]
    ELSE IF Len(ix.slots) >= ix.max_elements
    THEN [raised |-> "RuntimeError", index |-> ix]
    ELSE [raised |-> "",
          index |-> [ix EXCEPT
                       !.slots = Append(@, [label |-> label, deleted |-> FALSE, vec |-> vec]),
                       !.lookup = FPut(@, label, Len(ix.slots) + 1)]]

\* addPoint(data, label, replace_deleted=true) into the vacant slot i
AddPointReplace(ix, vec, label, i) ==
    [raised |-> "",
     index |-> [ix EXCEPT
                  !.slots[i] = [label |-> label, deleted |-> FALSE, vec |-> vec],
                  !.lookup = FPut(FDel(@, ix.slots[i].label), label, i)]]

\* addPoint(data, label, replace_deleted=true): *deleted_elements.begin() is
\* whichever vacant slot the unordered set yields
AddPoint(ix, vec, label) ==
    IF Vacant(ix) = {}
    THEN {AddPointPlain(ix, vec, label)}
    ELSE {AddPointReplace(ix, vec, label, i) : i \in Vacant(ix)}

\* index.add_items(features, ids, replace_deleted=True): one addPoint per row
RECURSIVE IndexAddItems(_, _, _)
IndexAddItems(ix, features, ids) ==
    IF ids = <<>> \/ features = <<>>
    THEN {[raised |-> "", index |-> ix]}
    ELSE UNION {IF r.raised # "" THEN {r}
                ELSE IndexAddItems(r.index, Tail(features), Tail(ids))
                : r \in AddPoint(ix, Head(features), Head(ids))}

\* index.mark_deleted(label)
MarkDeleted(ix, label) ==
    IF ~FHas(ix.lookup, label)
    THEN [raised |-> "RuntimeError", index |-> ix]
    ELSE LET e == ix.lookup[label]
         IN IF ix.slots[e].deleted
            THEN [raised |-> "RuntimeError", index |-> ix]
            ELSE [raised |-> "", index |-> [ix EXCEPT !.slots[e].deleted = TRUE]]

\* index.resize_index(new_size)
ResizeIndex(ix, new_size) ==
    IF new_size < Len(ix.slots)
    THEN [raised |-> "RuntimeError", index |-> ix]
    ELSE [raised |-> "", index |-> [ix EXCEPT !.max_elements = new_size]]

\* index.get_items(ids) succeeds iff every id is a live key
CanGetItems(ix, ids) == \A i \in DOMAIN ids : ids[i] \in LiveKeys(ix)

GetItems(ix, ids) == [i \in DOMAIN ids |-> ix.slots[ix.lookup[ids[i]]].vec]

(***************************************************************************)
(* VectorDB.  A store value is [index, mapping, disk]; every operation     *)
(* yields the set of outcomes [index, mapping, disk, raised, ret] it can   *)
(* end in (raised = "" for a normal return).                               *)
(***************************************************************************)
\* index.save_index(path): the elements (label, deleted mark, vector) in the
\* order of their internal ids, and max_elements; label_lookup_ is not written
save_index(ix) == [slots |-> ix.slots, max_elements |-> ix.max_elements]

\* index.load_index(path, allow_replace_deleted=True): label_lookup_ is filled
\* element by element, so of two elements with one label the later one is found
load_index(file) ==
    [slots |-> file.slots,
     lookup |-> [k \in {file.slots[i].label : i \in DOMAIN file.slots} |->
                    CHOOSE i \in DOMAIN file.slots :
                        /\ file.slots[i].label = k
                        /\ \A j \in DOMAIN file.slots : file.slots[j].label = k => j <= i],
     max_elements |-> file.max_elements]

NoDisk ==
    [has_index |-> FALSE, index |-> save_index(new_index(CAPACITY)),
     has_mapping |-> FALSE, mapping |-> EmptyMapping]

\* idx_path.is_file() and map_path.is_file()
BothFiles(dsk) == dsk.has_index /\ dsk.has_mapping

Out(ix, m, dsk, raised, ret) ==
    [index |-> ix, mapping |-> m, disk |-> dsk, raised |-> raised, ret |-> ret]

\* len(self.mapping)
count(db) == Len(db.mapping.fwd)

capacity(db) == db.index.max_elements

next_capacity(db) == db.index.max_elements + CAPACITY

next_id(db) == element_count(db.index) + 1

\* save(): index.save_index, then pickle the mapping
SavedDisk(ix, m) ==
    [has_index |-> TRUE, index |-> save_index(ix), has_mapping |-> TRUE, mapping |-> m]

save(db) == {Out(db.index, db.mapping, SavedDisk(db.index, db.mapping), "", 0)}

\* lines 159-162: every key of the mapping is among index.get_ids_list()
load_files(dsk) ==
    LET ix == load_index(dsk.index)
    IN IF DKeys(dsk.mapping.fwd) \subseteq DOMAIN ix.lookup
       THEN [raised |-> "", index |-> ix, mapping |-> dsk.mapping]
       ELSE [raised |-> "ValueError", index |-> ix, mapping |-> dsk.mapping]

\* a load that takes a directory with one file only for a new one
load_db_lenient(dsk) ==
    IF BothFiles(dsk) THEN load_files(dsk)
    ELSE [raised |-> "", index |-> new_index(CAPACITY), mapping |-> EmptyMapping]

\* load_db(): both files absent -> a new store; both present -> load and
\* check; one of them only -> OSError
load_db(dsk) ==
    IF ~dsk.has_index /\ ~dsk.has_mapping
    THEN [raised |-> "", index |-> new_index(CAPACITY), mapping |-> EmptyMapping]
    ELSE IF BothFiles(dsk) THEN load_files(dsk)
    ELSE [raised |-> "OSError", index |-> new_index(CAPACITY), mapping |-> EmptyMapping]

add_item(db, label, feature, overwrite) ==
    IF DHas(db.mapping.inv, label) /\ ~overwrite
    THEN {Out(db.index, db.mapping, db.disk, "", 0)}
    ELSE LET present == DHas(db.mapping.inv, label)
             rz == IF ~present /\ count(db) >= capacity(db)
                   THEN ResizeIndex(db.index, next_capacity(db))
                   ELSE [raised |-> "", index |-> db.index]
             fid == IF present THEN DGet(db.mapping.inv, label) ELSE next_id(db)
             mp == IF present THEN [raised |-> "", mapping |-> db.mapping]
                   ELSE BidictSet(db.mapping, fid, label)
         IN IF rz.raised # "" THEN {Out(rz.index, db.mapping, db.disk, rz.raised, 0)}
            ELSE IF mp.raised # "" THEN {Out(rz.index, mp.mapping, db.disk, mp.raised, 0)}
            ELSE {IF r.raised # ""
                  THEN Out(r.index, mp.mapping, db.disk, r.raised, 0)
                  ELSE Out(r.index, mp.mapping, SavedDisk(r.index, mp.mapping), "", 1)
                  : r \in IndexAddItems(rz.index, <<feature>>, <<fid>>)}

\* multi_remove(lst, values): the indices removed; Kept: what stays in lst
RemovedIndices(lst, values) == {i \in DOMAIN lst : lst[i] \in values}

SubSeqAt(lst, I) ==
    LET F[i \in 0..Len(lst)] ==
            IF i = 0 THEN <<>>
            ELSE IF i \in I THEN Append(F[i - 1], lst[i]) ELSE F[i - 1]
    IN F[Len(lst)]

multi_remove(lst, values) ==
    [indices |-> RemovedIndices(lst, values),
     kept |-> SubSeqAt(lst, DOMAIN lst \ RemovedIndices(lst, values))]

\* multi_pop(lst, indices)
multi_pop(lst, indices) ==
    [removed |-> SubSeqAt(lst, indices), kept |-> SubSeqAt(lst, DOMAIN lst \ indices)]

\* for i, label in enumerate(labels): self.mapping[self.next_id + i] = label
RECURSIVE MapLoop(_, _, _, _)
MapLoop(m, first, labels, i) ==
    IF i > Len(labels) THEN [raised |-> "", mapping |-> m]
    ELSE LET r == BidictSet(m, first + i - 1, labels[i])
         IN IF r.raised # "" THEN r ELSE MapLoop(r.mapping, first, labels, i + 1)

\* lines 207-220: the new labels of the batch
AddNew(db, ix, labels, features, updated) ==
    LET incr_size == Len(features)
    IN IF ~(incr_size > 0 /\ Len(labels) = incr_size)
       THEN {Out(ix, db.mapping, db.disk, "", updated)}
       ELSE LET rz == IF count(db) + incr_size > ix.max_elements
                      THEN ResizeIndex(ix, ix.max_elements + CAPACITY)
                      ELSE [raised |-> "", index |-> ix]
                first == element_count(rz.index) + 1
                ids == [i \in 1..incr_size |-> first + i - 1]
                mp == MapLoop(db.mapping, first, labels, 1)
            IN IF rz.raised # "" THEN {Out(rz.index, db.mapping, db.disk, rz.raised, 0)}
               ELSE IF mp.raised # "" THEN {Out(rz.index, mp.mapping, db.disk, mp.raised, 0)}
               ELSE {IF r.raised # ""
                     THEN Out(r.index, mp.mapping, db.disk, r.raised, 0)
                     ELSE Out(r.index, mp.mapping, db.disk, "", updated + incr_size)
                     : r \in IndexAddItems(rz.index, features, ids)}

\* lines 192-225: add_items past its length check
add_items_locked(db, labels, features, overwrite) ==
    LET existing_labels == Sorted(DKeys(db.mapping.inv) \cap Range(labels))
        rem == multi_remove(labels, Range(existing_labels))
        pop == multi_pop(features, rem.indices)
        existing_ids == [i \in DOMAIN existing_labels |->
                            DGet(db.mapping.inv, existing_labels[i])]
        over == IF existing_labels # <<>> /\ overwrite
                THEN IndexAddItems(db.index, pop.removed, existing_ids)
                ELSE {[raised |-> "", index |-> db.index]}
        upd0 == IF existing_labels # <<>> /\ overwrite THEN Len(existing_labels) ELSE 0
    IN IF existing_labels # <<>> /\ Len(existing_labels) # Len(pop.removed)
       THEN {Out(db.index, db.mapping, db.disk, "ValueError", 0)}
       ELSE UNION {IF o.raised # ""
                   THEN {Out(o.index, db.mapping, db.disk, o.raised, 0)}
                   ELSE {IF r.raised = "" /\ r.ret > 0
                         THEN [r EXCEPT !.disk = SavedDisk(r.index, r.mapping)]
                         ELSE r
                         : r \in AddNew(db, o.index, rem.kept, pop.kept, upd0)}
                   : o \in over}

\* an add_items that goes to work without comparing the lengths
add_items_unchecked(db, labels, features, overwrite) ==
    add_items_locked(db, labels, features, overwrite)

add_items(db, labels, features, overwrite) ==
    IF Len(labels) # Len(features)
    THEN {Out(db.index, db.mapping, db.disk, "ValueError", 0)}
    ELSE add_items_locked(db, labels, features, overwrite)

\* delete(): a key is [int |-> TRUE, id |-> n] or [int |-> FALSE, label |-> l]
IntKey(n) == [int |-> TRUE, id |-> n, label |-> ""]

StrKey(l) == [int |-> FALSE, id |-> 0, label |-> l]

RECURSIVE DeleteLoop(_, _, _)
DeleteLoop(ix, m, keys) ==
    IF keys = <<>> THEN [raised |-> "", index |-> ix, mapping |-> m]
    ELSE LET key == Head(keys)
         IN IF ~key.int /\ ~DHas(m.inv, key.label)
            THEN [raised |-> "KeyError", index |-> ix, mapping |-> m]
            ELSE LET fid == IF key.int THEN key.id ELSE DGet(m.inv, key.label)
                     md == MarkDeleted(ix, fid)
                     dl == BidictDel(m, fid)
                 IN IF md.raised # ""
                    THEN [raised |-> md.raised, index |-> ix, mapping |-> m]
                    ELSE IF dl.raised # ""
                    THEN [raised |-> dl.raised, index |-> md.index, mapping |-> m]
                    ELSE DeleteLoop(md.index, dl.mapping, Tail(keys))

\* ibatch(iterable, batch_size)
RECURSIVE Chunks(_, _)
Chunks(seq, n) ==
    IF Len(seq) = 0 THEN <<>>
    ELSE IF Len(seq) <= n THEN <<seq>>
    ELSE <<SubSeq(seq, 1, n)>> \o Chunks(SubSeq(seq, n + 1, Len(seq)), n)

ibatch(seq, n) == (IF seq = <<>> THEN <<(<<>>)>> ELSE <<>>) \o Chunks(seq, n)

RECURSIVE UpdateLoop(_, _, _, _)
UpdateLoop(m, ids, labels, i) ==
    IF i > Len(ids) THEN [raised |-> "", mapping |-> m]
    ELSE LET r == BidictSet(m, ids[i], labels[i])
         IN IF r.raised # "" THEN r ELSE UpdateLoop(r.mapping, ids, labels, i + 1)

\* the loop of rebuild() from batch number n (0-based) on
RECURSIVE RebuildLoop(_, _, _, _, _, _)
RebuildLoop(db, new_ix, new_m, bs, n, n_batch) ==
    IF n >= Len(bs) THEN {[raised |-> "", index |-> new_ix, mapping |-> new_m]}
    ELSE LET batch_ids == bs[n + 1]
         IN IF ~CanGetItems(db.index, batch_ids)
            THEN {[raised |-> "RuntimeError", index |-> db.index, mapping |-> db.mapping]}
            ELSE LET batch_features == GetItems(db.index, batch_ids)
                     new_ids == [i \in DOMAIN batch_ids |-> n * n_batch + (i - 1) + 1]
                     batch_labels == [i \in DOMAIN batch_ids |-> DGet(db.mapping.fwd, batch_ids[i])]
                     mp == UpdateLoop(new_m, new_ids, batch_labels, 1)
                 IN UNION {IF r.raised # "" \/ mp.raised # ""
                           THEN {[raised |-> IF r.raised # "" THEN r.raised ELSE mp.raised,
                                  index |-> db.index, mapping |-> db.mapping]}
                           ELSE RebuildLoop(db, r.index, mp.mapping, bs, n + 1, n_batch)
                           : r \in IndexAddItems(new_ix, batch_features, new_ids)}

\* lines 309-321 of rebuild(): new_ix is the index made at line 306, before the
\* lock is taken; the outcomes are the new index and mapping, or what was raised
rebuild_locked(db, new_ix, n_batch) ==
    IF db.mapping.fwd = <<>>
    THEN {[raised |-> "", index |-> new_ix, mapping |-> EmptyMapping]}
    ELSE RebuildLoop(db, new_ix, EmptyMapping,
                     ibatch(KeySeq(db.mapping.fwd), n_batch), 0, n_batch)

rebuild(db, n_batch) ==
    {IF r.raised # ""
     THEN Out(r.index, r.mapping, db.disk, r.raised, 0)
     ELSE Out(r.index, r.mapping, SavedDisk(r.index, r.mapping), "", 0)
     : r \in rebuild_locked(db, new_index(capacity(db)), n_batch)}

delete(db, keys, rb) ==
    LET d == DeleteLoop(db.index, db.mapping, keys)
    IN IF d.raised # "" THEN {Out(d.index, d.mapping, db.disk, d.raised, 0)}
       ELSE IF rb
       THEN {IF r.raised # "" THEN r
             ELSE Out(r.index, r.mapping, SavedDisk(r.index, r.mapping), "", 0)
             : r \in rebuild([index |-> d.index, mapping |-> d.mapping, disk |-> db.disk],
                             NBatch)}
       ELSE {Out(d.index, d.mapping, SavedDisk(d.index, d.mapping), "", 0)}

\* a clear that keeps the capacity the index has grown to
clear_keeping_capacity(db) ==
    {Out(new_index(capacity(db)), EmptyMapping,
         SavedDisk(new_index(capacity(db)), EmptyMapping), "", 0)}

clear(db) ==
    {Out(new_index(CAPACITY), EmptyMapping, SavedDisk(new_index(CAPACITY), EmptyMapping), "", 0)}

(***************************************************************************)
(* The store's state machine: one call at a time on one VectorDB.          *)
(***************************************************************************)
theDB == [index |-> index, mapping |-> mapping, disk |-> disk]

\* what the last call was: its name, its overwrite/rebuild flag, what it raised
\* ("" for a normal return) and what it returned
Call(op, flag, raised, ret) == [op |-> op, flag |-> flag, raised |-> raised, ret |-> ret]

NoBatch == [labels |-> <<>>, features |-> <<>>]

\* no search yet: search_k = -1 says that the index was not queried
NoQuery ==
    [feature |-> <<>>, k |-> 0, similarity |-> 0, search_k |-> -1, v_ids |-> <<>>,
     results |-> <<>>]

ApplyStore(o, op, flag) ==
    /\ index' = o.index
    /\ mapping' = o.mapping
    /\ disk' = o.disk
    /\ db_dir' = db_dir
    /\ last' = Call(op, flag, o.raised, o.ret)

\* batch and query tell of the last call only
Apply(o, op, flag) == ApplyStore(o, op, flag) /\ batch' = NoBatch /\ query' = NoQuery

DeleteKeys == {StrKey(l) : l \in Labels} \cup {IntKey(n) : n \in 1..(MaxSlots + 1)}

StoreInit ==
    /\ index = new_index(CAPACITY)
    /\ mapping = EmptyMapping
    /\ disk = NoDisk
    \* load_db, line 141: db_path.mkdir(parents=True, exist_ok=True)
    /\ db_dir = TRUE
    /\ last = Call("init", FALSE, "", 0)
    /\ batch = NoBatch
    /\ query = NoQuery

AddItem ==
    \E label \in Labels, feature \in Vectors, overwrite \in BOOLEAN :
        /\ element_count(index) + 1 <= MaxSlots
        /\ \E o \in add_item(theDB, label, feature, overwrite) :
               Apply(o, "add_item", overwrite)
        /\ UNCHANGED <<searchVars, ingestVars, concVars, regVars, procVars, rwVars>>

AddItems ==
    \E labels \in SeqsUpTo(Labels, MaxBatch), features \in SeqsUpTo(Vectors, MaxBatch),
       overwrite \in BOOLEAN :
        /\ element_count(index) + Len(labels) <= MaxSlots
        \* the vectors of a call that fails the length check are never read
        /\ Len(features) # Len(labels) => Range(features) \subseteq {1}
        /\ \E o \in add_items(theDB, labels, features, overwrite) :
               Apply(o, "add_items", overwrite)
        /\ UNCHANGED <<searchVars, ingestVars, concVars, regVars, procVars, rwVars>>

Delete(rb) ==
    \E keys \in SeqsUpTo(DeleteKeys, MaxBatch) :
        /\ \E o \in delete(theDB, keys, rb) :
               Apply(o, "delete", rb)
        /\ UNCHANGED <<searchVars, ingestVars, concVars, regVars, procVars, rwVars>>

Clear ==
    /\ \E o \in clear(theDB) : Apply(o, "clear", FALSE)
    /\ UNCHANGED <<searchVars, ingestVars, concVars, regVars, procVars, rwVars>>

Rebuild ==
    /\ \E o \in rebuild(theDB, NBatch) : Apply(o, "rebuild", FALSE)
    /\ UNCHANGED <<searchVars, ingestVars, concVars, regVars, procVars, rwVars>>

Save ==
    /\ \E o \in save(theDB) : Apply(o, "save", FALSE)
    /\ UNCHANGED <<searchVars, ingestVars, concVars, regVars, procVars, rwVars>>

\* a new VectorDB(db_name) over the same directory: __init__ -> load_db
Load ==
    /\ LET r == load_db(disk)
       IN /\ r.raised = ""
          /\ Apply(Out(r.index, r.mapping, disk, "", 0), "load", FALSE)
    /\ UNCHANGED <<searchVars, ingestVars, concVars, regVars, procVars, rwVars>>

StoreNext ==
    \/ AddItem
    \/ AddItems
    \/ Delete(FALSE)
    \/ Delete(TRUE)
    \/ Clear
    \/ Rebuild
    \/ Save
    \/ Load

NoRebuildNext ==
    \/ AddItem
    \/ AddItems
    \/ Delete(FALSE)

\* the labels of the batches under study
BatchLabels == {"a", "b"}

\* how many entries of labels the mapping does not hold yet
NewIn(labels) == Cardinality({i \in DOMAIN labels : ~DHas(mapping.inv, labels[i])})

\* add_items, its arguments kept for the claims that speak of them
BatchAddItems ==
    \E labels \in SeqsUpTo(BatchLabels, MaxBatch), features \in SeqsUpTo(Vectors, MaxBatch),
       overwrite \in BOOLEAN :
        /\ element_count(index) + NewIn(labels) <= MaxSlots
        \* the calls that fail the length check: one of each shape
        /\ Len(features) # Len(labels) =>
               Range(features) \subseteq {1} /\ Range(labels) \subseteq {"a"}
        /\ \E o \in add_items(theDB, labels, features, overwrite) :
               ApplyStore(o, "add_items", overwrite)
        /\ batch' = [labels |-> labels, features |-> features]
        /\ query' = NoQuery
        /\ UNCHANGED <<searchVars, ingestVars, concVars, regVars, procVars, rwVars>>

\* delete(label)
DeleteLabel ==
    \E l \in BatchLabels :
        /\ \E o \in delete(theDB, <<StrKey(l)>>, FALSE) : Apply(o, "delete", FALSE)
        /\ UNCHANGED <<searchVars, ingestVars, concVars, regVars, procVars, rwVars>>

BatchNext ==
    \/ BatchAddItems
    \/ DeleteLabel

(***************************************************************************)
(* RPCService.handle_search behind the search semaphore.                   *)
(***************************************************************************)
Threads == 1..NThreads

Max(a, b) == IF a >= b THEN a ELSE b

\* self.max_concurrent_searches = max(2, cfg.BATCH_SIZE // 2)
max_concurrent_searches == Max(2, BATCH_SIZE \div 2)

\* what handle_search hands back: None, [] or a list of (label, similarity);
\* outcome tells why: "rejected", "bad_query", "error", "nothing" or "found"
Result(value, outcome) == [value |-> value, outcome |-> outcome]

NoResult == Result("unset", "unset")

\* an acquire that also succeeds on a semaphore at zero
acquire_at_zero(s) == [ok |-> s >= 0, sem |-> IF s > 0 THEN s - 1 ELSE 0]

\* search_semaphore.acquire(blocking=False)
acquire_nonblocking(s) == [ok |-> s > 0, sem |-> IF s > 0 THEN s - 1 ELSE s]

\* a rejection that answers like a search without matches
rejected_as_empty == Result("[]", "rejected")

\* line 186: return None
rejected == Result("None", "rejected")

QueryTypes == {"str", "bytes", "dict_data", "dict_other", "other"}

Similarities == {-1, 0, 101}

\* db.search(feature, k, similarity) seen from its caller: n is the store's
\* count, found whether the index query leaves a neighbour above the threshold,
\* knn_ok whether index.knn_query returns
db_search(n, feature_empty, similarity, knn_ok, found) ==
    IF n = 0 \/ feature_empty THEN [raised |-> "", value |-> "[]"]
    ELSE IF similarity < 0 \/ similarity > 100 THEN [raised |-> "ValueError", value |-> ""]
    ELSE IF ~knn_ok THEN [raised |-> "RuntimeError", value |-> ""]
    ELSE IF found THEN [raised |-> "", value |-> "list"]
    ELSE [raised |-> "", value |-> "[]"]

\* lines 188-224: the body of the try, from the query to the value returned
search_body(qtype, embed_ok, n, similarity, knn_ok, found) ==
    IF qtype \in {"dict_other", "other"} THEN Result("[]", "bad_query")
    ELSE IF ~embed_ok THEN Result("[]", "error")
    ELSE LET r == db_search(n, FALSE, similarity, knn_ok, found)
         IN IF r.raised # "" THEN Result("[]", "error")
            ELSE IF r.value = "list" THEN Result("list", "found")
            ELSE Result("[]", "nothing")

\* the early returns of the body leave without passing through finally
exit_skipping_finally(r) == IF r.outcome = "bad_query" THEN "returned" ELSE "finally"

\* every return and every exception of the try leaves through finally
exit_of_try(r) == "finally"

SearchInit ==
    /\ sem = max_concurrent_searches
    /\ spc = [t \in Threads |-> "idle"]
    /\ spend = [t \in Threads |-> NoResult]
    /\ sres = [t \in Threads |-> NoResult]
    /\ sadm = [t \in Threads |-> FALSE]

\* handle_search is called: lines 184-186
SearchCall(t) ==
    /\ spc[t] = "idle"
    /\ LET a == acquire_nonblocking(sem)
       IN /\ sem' = a.sem
          /\ sadm' = [sadm EXCEPT ![t] = a.ok]
          /\ IF a.ok
             THEN /\ spc' = [spc EXCEPT ![t] = "try"]
                  /\ sres' = [sres EXCEPT ![t] = NoResult]
             ELSE /\ spc' = [spc EXCEPT ![t] = "returned"]
                  /\ sres' = [sres EXCEPT ![t] = rejected]
    /\ UNCHANGED <<spend, storeVars, ingestVars, concVars, regVars, procVars, rwVars>>

\* lines 188-224
SearchBody(t) ==
    /\ spc[t] = "try"
    /\ \E qtype \in QueryTypes, embed_ok \in BOOLEAN, n \in {0, 1},
          similarity \in Similarities, knn_ok \in BOOLEAN, found \in BOOLEAN :
          LET r == search_body(qtype, embed_ok, n, similarity, knn_ok, found)
          IN IF exit_of_try(r) = "finally"
             THEN /\ spend' = [spend EXCEPT ![t] = r]
                  /\ spc' = [spc EXCEPT ![t] = "finally"]
                  /\ UNCHANGED sres
             ELSE /\ sres' = [sres EXCEPT ![t] = r]
                  /\ spc' = [spc EXCEPT ![t] = "returned"]
                  /\ UNCHANGED spend
    /\ UNCHANGED <<sem, sadm, storeVars, ingestVars, concVars, regVars, procVars, rwVars>>

\* lines 225-226: finally: self.search_semaphore.release()
SearchFinally(t) ==
    /\ spc[t] = "finally"
    /\ sem' = sem + 1
    /\ sres' = [sres EXCEPT ![t] = spend[t]]
    /\ spend' = [spend EXCEPT ![t] = NoResult]
    /\ spc' = [spc EXCEPT ![t] = "returned"]
    /\ UNCHANGED <<sadm, storeVars, ingestVars, concVars, regVars, procVars, rwVars>>

\* the caller has its answer; the thread serves the next request
SearchDone(t) ==
    /\ spc[t] = "returned"
    /\ spc' = [spc EXCEPT ![t] = "idle"]
    /\ UNCHANGED <<sem, spend, sres, sadm, storeVars, ingestVars, concVars, regVars, procVars, rwVars>>

SearchNext ==
    \E t \in Threads :
        \/ SearchCall(t)
        \/ SearchBody(t)
        \/ SearchFinally(t)
        \/ SearchDone(t)

(***************************************************************************)
(* The ingestion pipeline: handle_add_images, the bounded queue, the       *)
(* worker thread _process_queue, and the server's shutdown.                *)
(***************************************************************************)
Producers == 1..NProducers

DBNames == {"A", "B"}

\* the (label, db_name) items requests are made of (the image of an item is
\* told by Truncated)
Items == {<<"a", "A">>, <<"b", "A">>, <<"a", "B">>}

\* images: dict[str, bytes] for one db_name: distinct labels, in dict order
Requests ==
    {r \in SeqsUpTo(Items, MaxBatch) :
        /\ r # <<>>
        /\ \A i, j \in DOMAIN r : r[i][2] = r[j][2] /\ (i # j => r[i][1] # r[j][1])}

\* Queue(maxsize=cfg.BATCH_SIZE * 3)
QueueMax == BATCH_SIZE * 3

NoDup(labels) == \A i, j \in DOMAIN labels : i # j => labels[i] # labels[j]

\* the items whose image bytes2img opens (Image.open reads the header only)
\* but whose pixel data cannot be decoded
Truncated == {<<"b", "A">>}

\* clip.embed_images(images): convert and preprocess every image, stack, encode;
\* an image that fails to decode raises out of the whole call
embed_images(labels, db_name) ==
    IF \E i \in DOMAIN labels : <<labels[i], db_name>> \in Truncated
    THEN [raised |-> "OSError", features |-> <<>>]
    ELSE [raised |-> "", features |-> [i \in DOMAIN labels |-> 1]]

\* _process_images: what the store of db_name holds afterwards.  ok: add_items
\* raises nothing else; it raises on a label that occurs twice.  Whatever is
\* raised is logged and the batch is given up.
process_images(labels, db_name, held, ok) ==
    IF embed_images(labels, db_name).raised # "" THEN held
    ELSE IF ok /\ NoDup(labels) THEN held \cup Range(labels) ELSE held

\* the batch is given up: embed_images, _get_db (a store that does not load)
\* or add_items raised
batch_fails(labels, db_name, ok) ==
    embed_images(labels, db_name).raised # "" \/ ~(ok /\ NoDup(labels))

\* a _process_images without its try: what is raised leaves it
escapes_uncaught(labels, db_name, ok) == batch_fails(labels, db_name, ok)

\* whether an exception leaves _process_images: `except Exception` (lines
\* 108-110) takes whatever lines 102-105 raise and logs it
escapes(labels, db_name, ok) == FALSE

IngestInit ==
    /\ image_queue = <<>>
    /\ batches = [d \in DBNames |-> <<>>]
    /\ ppc = [p \in Producers |-> "idle"]
    /\ pimgs = [p \in Producers |-> <<>>]
    /\ pcount = [p \in Producers |-> 0]
    /\ committed = [d \in DBNames |-> {}]
    /\ phase = "running"
    /\ handed = {}
    /\ wpc = "run"

\* a client calls handle_add_images(images, db_name)
AddImagesCall(p) ==
    /\ phase = "running"
    /\ ppc[p] = "idle"
    /\ \E r \in Requests : pimgs' = [pimgs EXCEPT ![p] = r]
    /\ pcount' = [pcount EXCEPT ![p] = 0]
    /\ ppc' = [ppc EXCEPT ![p] = "loop"]
    /\ handed' = {}
    /\ UNCHANGED <<image_queue, batches, committed, phase, wpc, storeVars, searchVars, concVars, regVars, procVars, rwVars>>

\* line 154: the next item of the for loop, image = bytes2img(image_bytes);
\* an exception of bytes2img leaves the handler (only Full is caught)
AddImagesDecode(p) ==
    /\ phase # "exited"
    /\ ppc[p] = "loop"
    /\ pimgs[p] # <<>>
    /\ \E img_ok \in BOOLEAN :
          IF img_ok
          THEN /\ ppc' = [ppc EXCEPT ![p] = "put"]
               /\ UNCHANGED <<pimgs, pcount>>
          ELSE /\ ppc' = [ppc EXCEPT ![p] = "raised"]
               /\ pimgs' = [pimgs EXCEPT ![p] = <<>>]
               /\ pcount' = [pcount EXCEPT ![p] = 0]
    /\ handed' = {}
    /\ UNCHANGED <<image_queue, batches, committed, phase, wpc, storeVars, searchVars, concVars, regVars, procVars, rwVars>>

\* lines 155-156: image_queue.put(item) waits while the queue is full
\* (block=True, no timeout), then queued_count += 1
AddImagesPut(p) ==
    /\ phase # "exited"
    /\ ppc[p] = "put"
    /\ Len(image_queue) < QueueMax
    /\ image_queue' = Append(image_queue, Head(pimgs[p]))
    /\ pimgs' = [pimgs EXCEPT ![p] = Tail(@)]
    /\ pcount' = [pcount EXCEPT ![p] = @ + 1]
    /\ ppc' = [ppc EXCEPT ![p] = "loop"]
    /\ handed' = {}
    /\ UNCHANGED <<batches, committed, phase, wpc, storeVars, searchVars, concVars, regVars, procVars, rwVars>>

\* line 160: the loop is over: return queued_count
AddImagesReturn(p) ==
    /\ phase # "exited"
    /\ ppc[p] = "loop"
    /\ pimgs[p] = <<>>
    /\ ppc' = [ppc EXCEPT ![p] = "returned"]
    /\ handed' = {}
    /\ UNCHANGED <<image_queue, batches, pimgs, pcount, committed, phase, wpc, storeVars, searchVars, concVars, regVars, procVars, rwVars>>

\* the client has its answer (a count, or the exception of bytes2img)
AddImagesDone(p) ==
    /\ ppc[p] \in {"returned", "raised"}
    /\ ppc' = [ppc EXCEPT ![p] = "idle"]
    /\ pcount' = [pcount EXCEPT ![p] = 0]
    /\ handed' = {}
    /\ UNCHANGED <<image_queue, batches, pimgs, committed, phase, wpc, storeVars, searchVars, concVars, regVars, procVars, rwVars>>

AddImagesStep(p) ==
    \/ AddImagesDecode(p)
    \/ AddImagesPut(p)
    \/ AddImagesReturn(p)

\* _process_queue, lines 120-129: get an item, batch it, process the batch
\* when it holds n items
WorkerGetAt(n) ==
    /\ phase # "exited"
    /\ wpc = "run"
    /\ image_queue # <<>>
    /\ LET label == Head(image_queue)[1]
           db_name == Head(image_queue)[2]
           batch_labels == Append(batches[db_name], label)
       IN /\ image_queue' = Tail(image_queue)
          /\ IF Len(batch_labels) >= n
             THEN /\ \E ok \in BOOLEAN :
                        /\ committed' = [committed EXCEPT ![db_name] =
                                            process_images(batch_labels, db_name, @, ok)]
                        /\ handed' = {[db_name |-> db_name, labels |-> batch_labels,
                                       failed |-> batch_fails(batch_labels, db_name, ok)]}
                        /\ wpc' = IF escapes(batch_labels, db_name, ok)
                                  THEN "dead" ELSE "run"
                  /\ batches' = [batches EXCEPT ![db_name] = <<>>]
             ELSE /\ batches' = [batches EXCEPT ![db_name] = batch_labels]
                  /\ handed' = {}
                  /\ UNCHANGED <<committed, wpc>>
    /\ UNCHANGED <<ppc, pimgs, pcount, phase, storeVars, searchVars, concVars, regVars, procVars, rwVars>>

\* a worker that lets a batch grow one item beyond BATCH_SIZE
WorkerGetLate == WorkerGetAt(BATCH_SIZE + 1)

WorkerGet == WorkerGetAt(BATCH_SIZE)

\* _process_queue, lines 131-136: get(timeout=1) found the queue empty for a
\* second: process what every batch holds
WorkerTimeout ==
    /\ phase # "exited"
    /\ wpc = "run"
    /\ image_queue = <<>>
    /\ \E ok \in [DBNames -> BOOLEAN] :
          LET full == {d \in DBNames : batches[d] # <<>>}
          IN /\ committed' = [d \in DBNames |->
                                 IF d \in full
                                 THEN process_images(batches[d], d, committed[d], ok[d])
                                 ELSE committed[d]]
             /\ handed' = {[db_name |-> d, labels |-> batches[d],
                            failed |-> batch_fails(batches[d], d, ok[d])] : d \in full}
             /\ wpc' = IF \E d \in full : escapes(batches[d], d, ok[d])
                       THEN "dead" ELSE "run"
    /\ batches' = [d \in DBNames |-> <<>>]
    /\ UNCHANGED <<image_queue, ppc, pimgs, pcount, phase, storeVars, searchVars, concVars, regVars, procVars, rwVars>>

\* Server.handle_signal(SIGTERM | SIGINT): the request loop ends
Signal ==
    /\ phase = "running"
    /\ phase' = "stopping"
    /\ handed' = {}
    /\ UNCHANGED <<image_queue, batches, ppc, pimgs, pcount, committed, wpc, storeVars, searchVars, concVars, regVars, procVars, rwVars>>

\* Server.cleanup() and the return of main(): the databases are saved, socket
\* and pid file removed, and the process ends, its daemon worker thread with it
Cleanup ==
    /\ phase = "stopping"
    /\ phase' = "exited"
    /\ handed' = {}
    /\ UNCHANGED <<image_queue, batches, ppc, pimgs, pcount, committed, wpc, storeVars, searchVars, concVars, regVars, procVars, rwVars>>

IngestNext ==
    \/ \E p \in Producers :
          \/ AddImagesCall(p)
          \/ AddImagesDecode(p)
          \/ AddImagesPut(p)
          \/ AddImagesReturn(p)
          \/ AddImagesDone(p)
    \/ WorkerGet
    \/ WorkerTimeout
    \/ Signal
    \/ Cleanup

\* the pipeline of a server that is not asked to stop
RunningNext ==
    \/ \E p \in Producers :
          \/ AddImagesCall(p)
          \/ AddImagesDecode(p)
          \/ AddImagesPut(p)
          \/ AddImagesReturn(p)
          \/ AddImagesDone(p)
    \/ WorkerGet
    \/ WorkerTimeout

(***************************************************************************)
(* Threads calling one VectorDB at the same time.  A call is a program:    *)
(* the steps it has still to take, in order; "acquire" and "release" are   *)
(* the entry and the exit of a `with self.wlock` block.  The statements    *)
(* that rebind self.index and self.mapping are steps of their own; search  *)
(* takes no lock.                                                          *)
(***************************************************************************)
Callers == 1..NCallers

\* the labels the concurrent callers add and delete
CallLabels == {"a", "b"}

\* the embedding of the image each label names
VecOf == [l \in Labels |-> IF l = "b" THEN -1 ELSE 1]

\* the query vector of the searches
SearchFeature == 1

\* search(feature, k=10, similarity=0.0)
DefaultK == 10

Min(a, b) == IF a <= b THEN a ELSE b

\* a lock that its own holder cannot take again
lock_acquire(lk, t) ==
    [ok |-> lk.count = 0, lock |-> [owner |-> t, count |-> lk.count + 1]]

\* RLock.acquire() by thread t: granted when free or held by t; the caller
\* waits otherwise
rlock_acquire(lk, t) ==
    [ok |-> lk.count = 0 \/ lk.owner = t, lock |-> [owner |-> t, count |-> lk.count + 1]]

\* RLock.release()
rlock_release(lk) ==
    IF lk.count = 1 THEN [owner |-> 0, count |-> 0] ELSE [lk EXCEPT !.count = @ - 1]

\* save(): with self.wlock: save_index, dump
SaveSteps == <<"acquire", "persist", "release">>

\* rebuild(): line 306, then with self.wlock: the loop, the two assignments, save
RebuildSteps ==
    <<"new_index", "acquire", "rebuild_body", "set_index", "set_mapping">>
        \o SaveSteps \o <<"release">>

Program(op, flag) ==
    CASE op = "add_item" ->
            <<"acquire", "add_body">> \o SaveSteps \o <<"release", "return">>
      [] op = "delete" /\ ~flag ->
            <<"acquire", "delete_body">> \o SaveSteps \o <<"release", "return">>
      [] op = "delete" /\ flag ->
            <<"acquire", "delete_body">> \o RebuildSteps \o SaveSteps
                \o <<"release", "return">>
      [] op = "clear" ->
            <<"acquire", "set_index", "set_mapping">> \o SaveSteps
                \o <<"release", "return">>
      [] op = "rebuild" -> RebuildSteps \o <<"return">>
      [] op = "save" -> SaveSteps \o <<"return">>
      [] op = "search" -> <<"check", "knn_query", "translate", "return">>

CountOf(seq, x) == Cardinality({i \in DOMAIN seq : seq[i] = x})

\* how many `with self.wlock` blocks a call with these steps left is inside
Depth(todo) == CountOf(todo, "release") - CountOf(todo, "acquire")

\* an exception leaves every enclosing with block, then the call
Unwind(todo) == [i \in 1..Depth(todo) |-> "release"] \o <<"return">>

NoCall ==
    [op |-> "none", label |-> "", flag |-> FALSE, todo |-> <<>>,
     new_index |-> new_index(CAPACITY), new_mapping |-> EmptyMapping,
     v_ids |-> {}, raised |-> "", ret |-> {}]

\* cosine distance of two unit vectors of dimension one
Distance(q, v) == 1 - q * v

\* index.knn_query([feature], k): the k nearest live elements as (label,
\* distance), ties in any order; raises when the index has fewer than k
knn_query(ix, feature, k) ==
    LET live == {i \in DOMAIN ix.slots : ~ix.slots[i].deleted}
        d(i) == Distance(feature, ix.slots[i].vec)
    IN IF Cardinality(live) < k
       THEN {[raised |-> "RuntimeError", v_ids |-> {}]}
       ELSE {[raised |-> "", v_ids |-> {<<ix.slots[i].label, d(i)>> : i \in S}] :
                S \in {S \in SUBSET live :
                          /\ Cardinality(S) = k
                          /\ \A i \in S, j \in live \ S : d(i) <= d(j)}}

\* lines 340-346: (label, similarity) of the neighbours the mapping knows
translate(m, v_ids, similarity) ==
    {<<DGet(m.fwd, p[1]), (1 - p[2]) * 100>> :
        p \in {p \in v_ids : DHas(m.fwd, p[1]) /\ (1 - p[2]) * 100 >= similarity}}

ConcInit ==
    /\ wlock = [owner |-> 0, count |-> 0]
    /\ calls = [t \in Callers |-> NoCall]

At(t, step) == calls[t].todo # <<>> /\ Head(calls[t].todo) = step

Advance(t, c) == calls' = [calls EXCEPT ![t] = [c EXCEPT !.todo = Tail(@)]]

Raise(t, exc) ==
    calls' = [calls EXCEPT ![t] = [@ EXCEPT !.raised = exc, !.todo = Unwind(Tail(@))]]

AddsUnderWay == Cardinality({t \in Callers : calls[t].op = "add_item" /\ calls[t].todo # <<>>})

\* a thread calls a method of the store
CCall(t) ==
    /\ calls[t].todo = <<>>
    /\ \E op \in {"add_item", "delete", "clear", "rebuild", "save", "search"},
          label \in CallLabels \cup {""}, flag \in BOOLEAN :
          /\ op = "add_item" => label # "" /\ flag
                                  /\ element_count(index) + AddsUnderWay + 1 <= MaxSlots
          /\ op = "delete" => label # ""
          /\ op \notin {"add_item", "delete"} => label = "" /\ ~flag
          /\ calls' = [calls EXCEPT ![t] =
                          [NoCall EXCEPT !.op = op, !.label = label, !.flag = flag,
                                         !.todo = Program(op, flag)]]
    /\ UNCHANGED <<wlock, storeVars, searchVars, ingestVars, regVars, procVars, rwVars>>

\* with self.wlock:
CAcquire(t) ==
    /\ At(t, "acquire")
    /\ LET r == rlock_acquire(wlock, t)
       IN r.ok /\ wlock' = r.lock
    /\ Advance(t, calls[t])
    /\ UNCHANGED <<storeVars, searchVars, ingestVars, regVars, procVars, rwVars>>

\* the end of a with block
CRelease(t) ==
    /\ At(t, "release")
    /\ wlock' = rlock_release(wlock)
    /\ Advance(t, calls[t])
    /\ UNCHANGED <<storeVars, searchVars, ingestVars, regVars, procVars, rwVars>>

\* add_item(label, feature), lines 171-183
CAddBody(t) ==
    /\ At(t, "add_body")
    /\ \E o \in add_item(theDB, calls[t].label, VecOf[calls[t].label], TRUE) :
          /\ index' = o.index
          /\ mapping' = o.mapping
          /\ IF o.raised # "" THEN Raise(t, o.raised) ELSE Advance(t, calls[t])
    /\ UNCHANGED <<disk, db_dir, last, batch, query, wlock, searchVars, ingestVars, regVars, procVars, rwVars>>

\* delete(label, rebuild=flag), lines 263-266
CDeleteBody(t) ==
    /\ At(t, "delete_body")
    /\ LET d == DeleteLoop(index, mapping, <<StrKey(calls[t].label)>>)
       IN /\ index' = d.index
          /\ mapping' = d.mapping
          /\ IF d.raised # "" THEN Raise(t, d.raised) ELSE Advance(t, calls[t])
    /\ UNCHANGED <<disk, db_dir, last, batch, query, wlock, searchVars, ingestVars, regVars, procVars, rwVars>>

\* rebuild(), lines 306-307: new_index with self.capacity, an empty bidict
CNewIndex(t) ==
    /\ At(t, "new_index")
    /\ Advance(t, [calls[t] EXCEPT !.new_index = new_index(capacity(theDB)),
                                   !.new_mapping = EmptyMapping])
    /\ UNCHANGED <<wlock, storeVars, searchVars, ingestVars, regVars, procVars, rwVars>>

\* rebuild(), lines 310-318
CRebuildBody(t) ==
    /\ At(t, "rebuild_body")
    /\ \E r \in rebuild_locked(theDB, calls[t].new_index, NBatch) :
          IF r.raised # "" THEN Raise(t, r.raised)
          ELSE Advance(t, [calls[t] EXCEPT !.new_index = r.index,
                                           !.new_mapping = r.mapping])
    /\ UNCHANGED <<wlock, storeVars, searchVars, ingestVars, regVars, procVars, rwVars>>

\* self.index = new_index (line 320), self.index = self.new_index(...) (line 274)
CSetIndex(t) ==
    /\ At(t, "set_index")
    /\ index' = calls[t].new_index
    /\ Advance(t, calls[t])
    /\ UNCHANGED <<mapping, disk, db_dir, last, batch, query, wlock, searchVars, ingestVars, regVars, procVars, rwVars>>

\* self.mapping = new_mapping (line 321), self.mapping = bidict() (line 275)
CSetMapping(t) ==
    /\ At(t, "set_mapping")
    /\ mapping' = calls[t].new_mapping
    /\ Advance(t, calls[t])
    /\ UNCHANGED <<index, disk, db_dir, last, batch, query, wlock, searchVars, ingestVars, regVars, procVars, rwVars>>

\* save(), lines 254-258
CPersist(t) ==
    /\ At(t, "persist")
    /\ disk' = SavedDisk(index, mapping)
    /\ Advance(t, calls[t])
    /\ UNCHANGED <<index, mapping, db_dir, last, batch, query, wlock, searchVars, ingestVars, regVars, procVars, rwVars>>

\* search(), lines 326-327
CSearchCheck(t) ==
    /\ At(t, "check")
    /\ IF count(theDB) = 0
       THEN calls' = [calls EXCEPT ![t] = [@ EXCEPT !.todo = <<"return">>]]
       ELSE Advance(t, calls[t])
    /\ UNCHANGED <<wlock, storeVars, searchVars, ingestVars, regVars, procVars, rwVars>>

\* search(), lines 335-337
CSearchQuery(t) ==
    /\ At(t, "knn_query")
    /\ \E r \in knn_query(index, SearchFeature, Min(DefaultK, count(theDB))) :
          IF r.raised # "" THEN Raise(t, r.raised)
          ELSE Advance(t, [calls[t] EXCEPT !.v_ids = r.v_ids])
    /\ UNCHANGED <<wlock, storeVars, searchVars, ingestVars, regVars, procVars, rwVars>>

\* search(), lines 340-348
CSearchTranslate(t) ==
    /\ At(t, "translate")
    /\ Advance(t, [calls[t] EXCEPT !.ret = translate(mapping, calls[t].v_ids, 0)])
    /\ UNCHANGED <<wlock, storeVars, searchVars, ingestVars, regVars, procVars, rwVars>>

\* the call is over: its locals are gone, its caller has what it returned or raised
CReturn(t) ==
    /\ At(t, "return")
    /\ calls' = [calls EXCEPT ![t] =
                    [NoCall EXCEPT !.raised = calls[t].raised, !.ret = calls[t].ret]]
    /\ UNCHANGED <<wlock, storeVars, searchVars, ingestVars, regVars, procVars, rwVars>>

ConcNext ==
    \E t \in Callers :
        \/ CCall(t)
        \/ CAcquire(t)
        \/ CRelease(t)
        \/ CAddBody(t)
        \/ CDeleteBody(t)
        \/ CNewIndex(t)
        \/ CRebuildBody(t)
        \/ CSetIndex(t)
        \/ CSetMapping(t)
        \/ CPersist(t)
        \/ CSearchCheck(t)
        \/ CSearchQuery(t)
        \/ CSearchTranslate(t)
        \/ CReturn(t)

(***************************************************************************)
(* RPCService.databases and _get_db, called by the handler threads of the  *)
(* Pyro5 daemon and by the worker thread.                                  *)
(***************************************************************************)
NoGet == [pc |-> "idle", db_name |-> "", db |-> 0]

RegInit ==
    /\ databases = [n \in DBNames |-> 0]
    /\ created = 0
    /\ getdb = [t \in Callers |-> NoGet]

\* a handler or the worker calls self._get_db(db_name)
GetDbCall(t) ==
    /\ getdb[t].pc = "idle"
    /\ \E n \in DBNames : getdb' = [getdb EXCEPT ![t] = [pc |-> "check", db_name |-> n, db |-> 0]]
    /\ UNCHANGED <<databases, created, storeVars, searchVars, ingestVars, concVars, procVars, rwVars>>

\* line 75: if db_name not in self.databases
GetDbCheck(t) ==
    /\ getdb[t].pc = "check"
    /\ getdb' = [getdb EXCEPT ![t].pc =
                    IF databases[getdb[t].db_name] = 0 THEN "construct" ELSE "return"]
    /\ UNCHANGED <<databases, created, storeVars, searchVars, ingestVars, concVars, procVars, rwVars>>

\* line 78, right-hand side: VectorDB(db_name, self.base_dir, dim), a new
\* instance loaded from the files
GetDbConstruct(t) ==
    /\ getdb[t].pc = "construct"
    /\ created < MaxInstances
    /\ created' = created + 1
    /\ getdb' = [getdb EXCEPT ![t].pc = "store", ![t].db = created + 1]
    /\ UNCHANGED <<databases, storeVars, searchVars, ingestVars, concVars, procVars, rwVars>>

\* line 78: self.databases[db_name] = ...
GetDbStore(t) ==
    /\ getdb[t].pc = "store"
    /\ databases' = [databases EXCEPT ![getdb[t].db_name] = getdb[t].db]
    /\ getdb' = [getdb EXCEPT ![t].pc = "return"]
    /\ UNCHANGED <<created, storeVars, searchVars, ingestVars, concVars, procVars, rwVars>>

\* line 79: return self.databases[db_name]  (KeyError if dropped meanwhile)
GetDbReturn(t) ==
    /\ getdb[t].pc = "return"
    /\ getdb' = [getdb EXCEPT ![t] =
                    [pc |-> "idle", db_name |-> getdb[t].db_name,
                     db |-> databases[getdb[t].db_name]]]
    /\ UNCHANGED <<databases, created, storeVars, searchVars, ingestVars, concVars, procVars, rwVars>>

\* handle_drop_db, lines 309-310: if db_name in self.databases: del ...
DropDb(t) ==
    /\ getdb[t].pc = "idle"
    /\ \E n \in DBNames :
          /\ databases[n] # 0
          /\ databases' = [databases EXCEPT ![n] = 0]
    /\ getdb' = [getdb EXCEPT ![t] = NoGet]
    /\ UNCHANGED <<created, storeVars, searchVars, ingestVars, concVars, procVars, rwVars>>

RegNext ==
    \E t \in Callers :
        \/ GetDbCall(t)
        \/ GetDbCheck(t)
        \/ GetDbConstruct(t)
        \/ GetDbStore(t)
        \/ GetDbReturn(t)
        \/ DropDb(t)

(***************************************************************************)
(* VectorDB.search on one store, and delete with the keys it was given.    *)
(* Cosines and distances are counted in 1/10000, similarities (percent) in *)
(* 1/100, so that round(x, 1) has digits to drop.                          *)
(***************************************************************************)
One == 10000

\* a percentage, counted in 1/100
Pct(p) == p * 100

\* the vectors stored for search: 1, its opposite -1, and 0, a unit vector
\* orthogonal to both
QueryVectors == Vectors \cup {0}

\* the query vectors: empty, or <<c, s>>, the cosines between the query and the
\* stored vectors 1 and 0
Queries == {<<>>, <<10000, 0>>, <<8004, 5994>>, <<0, 10000>>}

Ks == {1, DefaultK}

\* similarity: -1.0, 0.0, 50.0, 100.0, 101.0
Thresholds == {Pct(-1), Pct(0), Pct(50), Pct(100), Pct(101)}

\* the cosine distance hnswlib reports between the query and a stored vector
CosDistance(feature, v) == One - (IF v = 0 THEN feature[2] ELSE feature[1] * v)

\* round(x, 1): to the nearest tenth, a half to the even tenth
Round1(x) ==
    LET r == x % 10
        lo == x - r
    IN IF r < 5 THEN lo
       ELSE IF r > 5 THEN lo + 10
       ELSE IF (lo \div 10) % 2 = 0 THEN lo ELSE lo + 10

\* index.knn_query([feature], k=k): rows of (label, distance), nearest first,
\* equal distances in any order; raises when fewer than k elements are live
knn_rows(ix, feature, k) ==
    LET live == {i \in DOMAIN ix.slots : ~ix.slots[i].deleted}
        d(i) == CosDistance(feature, ix.slots[i].vec)
    IN IF Cardinality(live) < k
       THEN {[raised |-> "RuntimeError", rows |-> <<>>]}
       ELSE {[raised |-> "", rows |-> [n \in 1..k |-> <<ix.slots[s[n]].label, d(s[n])>>]] :
                s \in {s \in [1..k -> live] :
                          /\ \A i, j \in 1..k : i < j => s[i] # s[j] /\ d(s[i]) <= d(s[j])
                          /\ \A i \in 1..k, x \in live \ Range(s) : d(s[i]) <= d(x)}}

\* a filter that lets every neighbour through
reaches_any(res_similarity, similarity) == TRUE

\* line 345: if res_similarity >= similarity
reaches(res_similarity, similarity) == res_similarity >= similarity

\* lines 340-346: the rows whose key the mapping knows and whose rounded
\* similarity reaches the threshold, in the order of the rows
RECURSIVE Results(_, _, _)
Results(m, rows, similarity) ==
    IF rows = <<>> THEN <<>>
    ELSE LET vid == Head(rows)[1]
             distance == Head(rows)[2]
             res_similarity == Round1(One - distance)
             rest == Results(m, Tail(rows), similarity)
         IN IF DHas(m.fwd, vid) /\ reaches(res_similarity, similarity)
            THEN <<<<DGet(m.fwd, vid), res_similarity>>>> \o rest
            ELSE rest

\* what a search ends in: search_k = -1 when the index was not queried
SearchOut(raised, results, search_k, v_ids) ==
    [raised |-> raised, results |-> results, search_k |-> search_k, v_ids |-> v_ids]

search(db, feature, k, similarity) ==
    IF count(db) = 0 \/ feature = <<>>
    THEN {SearchOut("", <<>>, -1, <<>>)}
    ELSE IF similarity < Pct(0) \/ similarity > Pct(100)
    THEN {SearchOut("ValueError", <<>>, -1, <<>>)}
    ELSE LET search_k == Min(k, count(db))
         IN {IF r.raised # ""
             THEN SearchOut(r.raised, <<>>, search_k, <<>>)
             ELSE SearchOut("", Results(db.mapping, r.rows, similarity), search_k, r.rows)
             : r \in knn_rows(db.index, feature, search_k)}

\* db.search(feature, k, similarity)
Search ==
    \E feature \in Queries, k \in Ks, similarity \in Thresholds :
        /\ \E o \in search(theDB, feature, k, similarity) :
              /\ last' = Call("search", FALSE, o.raised, Len(o.results))
              /\ query' = [feature |-> feature, k |-> k, similarity |-> similarity,
                           search_k |-> o.search_k, v_ids |-> o.v_ids,
                           results |-> o.results]
        /\ batch' = NoBatch
        /\ UNCHANGED <<index, mapping, disk, db_dir, searchVars, ingestVars, concVars, regVars, procVars, rwVars>>

\* the keys of the deletes under study: two labels and a key
QueryDeleteKeys == {StrKey("a"), StrKey("b"), IntKey(1)}

\* db.delete(*keys, rebuild=rb), its keys kept in batch.labels
DeleteCall ==
    \E keys \in SeqsUpTo(QueryDeleteKeys, MaxBatch), rb \in BOOLEAN :
        /\ \E o \in delete(theDB, keys, rb) : ApplyStore(o, "delete", rb)
        /\ batch' = [labels |-> keys, features |-> <<>>]
        /\ query' = NoQuery
        /\ UNCHANGED <<searchVars, ingestVars, concVars, regVars, procVars, rwVars>>

\* db.add_item(label, feature, overwrite)
QueryAddItem ==
    \E label \in BatchLabels, feature \in QueryVectors, overwrite \in BOOLEAN :
        /\ element_count(index) + NewIn(<<label>>) <= MaxSlots
        /\ \E o \in add_item(theDB, label, feature, overwrite) :
               Apply(o, "add_item", overwrite)
        /\ UNCHANGED <<searchVars, ingestVars, concVars, regVars, procVars, rwVars>>

\* the files someone may put into the directory of a store: an index of up to
\* two elements and a pickled mapping
IndexFiles ==
    {[slots |-> sl, max_elements |-> CAPACITY] :
        sl \in SeqsUpTo([label : {1, 2}, deleted : BOOLEAN, vec : {1}], CAPACITY)}

MappingFiles ==
    {EmptyMapping,
     [fwd |-> <<<<1, "a">>>>, inv |-> <<<<"a", 1>>>>],
     [fwd |-> <<<<2, "b">>>>, inv |-> <<<<"b", 2>>>>],
     [fwd |-> <<<<1, "a">>, <<2, "b">>>>, inv |-> <<<<"a", 1>>, <<"b", 2>>>>]}

\* index.db and mapping.db are written from outside the store
WriteFiles ==
    /\ \E ixf \in IndexFiles, mf \in MappingFiles, hi \in BOOLEAN, hm \in BOOLEAN :
          /\ ~hi => ixf = NoDisk.index
          /\ ~hm => mf = NoDisk.mapping
          /\ disk' = [has_index |-> hi, index |-> ixf, has_mapping |-> hm, mapping |-> mf]
    /\ last' = Call("write", FALSE, "", 0)
    /\ UNCHANGED <<index, mapping, db_dir, batch, query, searchVars, ingestVars, concVars, regVars, procVars, rwVars>>

\* VectorDB(db_name) over the directory: load_db returns the store or raises
LoadFiles ==
    /\ LET r == load_db(disk)
       IN IF r.raised = ""
          THEN Apply(Out(r.index, r.mapping, disk, "", 0), "load", FALSE)
          ELSE Apply(Out(index, mapping, disk, r.raised, 0), "load", FALSE)
    /\ UNCHANGED <<searchVars, ingestVars, concVars, regVars, procVars, rwVars>>

FilesNext ==
    \/ WriteFiles
    \/ LoadFiles

QueryNext ==
    \/ QueryAddItem
    \/ DeleteCall
    \/ Search

(***************************************************************************)
(* A process that stops inside save(): index.db is written (line 254),     *)
(* mapping.db (lines 257-258) is still the file of the save before.        *)
(***************************************************************************)
\* every label is stored with one vector of its own
OwnVector(label) == IF label = "a" THEN 1 ELSE -1

\* a process holds the store: none after a stop or a load that raised
Alive == ~(last.op = "crash" \/ (last.op = "load" /\ last.raised # ""))

OwnAddItem ==
    \E label \in BatchLabels, overwrite \in BOOLEAN :
        /\ Alive
        /\ element_count(index) + NewIn(<<label>>) <= MaxSlots
        /\ \E o \in add_item(theDB, label, OwnVector(label), overwrite) :
               Apply(o, "add_item", overwrite)
        /\ UNCHANGED <<searchVars, ingestVars, concVars, regVars, procVars, rwVars>>

OwnDelete ==
    \E keys \in SeqsUpTo(QueryDeleteKeys, MaxBatch), rb \in BOOLEAN :
        /\ Alive
        /\ \E o \in delete(theDB, keys, rb) : Apply(o, "delete", rb)
        /\ UNCHANGED <<searchVars, ingestVars, concVars, regVars, procVars, rwVars>>

OwnClear == Alive /\ Clear

\* the calls that end in save(): add, overwrite, delete, clear, rebuild
Mutations(db) ==
    UNION ({add_item(db, l, OwnVector(l), ov) : l \in BatchLabels, ov \in BOOLEAN}
           \cup {delete(db, keys, rb) :
                    keys \in SeqsUpTo(QueryDeleteKeys, MaxBatch), rb \in BOOLEAN}
           \cup {clear(db), rebuild(db, NBatch)})

\* the files after save() of index ix stopped between its two writes
TornSave(ix, dsk) ==
    [has_index |-> TRUE, index |-> save_index(ix),
     has_mapping |-> dsk.has_mapping, mapping |-> dsk.mapping]

\* a call reaches save() and the process stops after line 254: its memory is
\* gone (a call that returned without saving leaves both files as they were)
CrashInSave ==
    /\ Alive
    /\ element_count(index) + 1 <= MaxSlots
    /\ \E o \in Mutations(theDB) :
          /\ o.raised = ""
          /\ o.disk = SavedDisk(o.index, o.mapping)
          /\ Apply(Out(new_index(CAPACITY), EmptyMapping, TornSave(o.index, disk), "", 0),
                   "crash", FALSE)
    /\ UNCHANGED <<searchVars, ingestVars, concVars, regVars, procVars, rwVars>>

CrashNext ==
    \/ OwnAddItem
    \/ OwnDelete
    \/ OwnClear
    \/ CrashInSave
    \/ LoadFiles

(***************************************************************************)
(* handle_drop_db beside the ingestion of one store, "A": index, mapping,  *)
(* disk and db_dir are that store's instance, files and directory,         *)
(* databases["A"] is 1 while an instance is registered.                    *)
(***************************************************************************)
DropName == "A"

\* VectorDB.db_list finds the store: a directory with both files
db_list(dsk, dir) == dir /\ BothFiles(dsk)

\* handle_add_images({label: bytes}, "A") with one image that opens: it is
\* put into the queue and 1 is returned
DropAddImage ==
    /\ \E label \in BatchLabels :
          /\ <<label, DropName>> \in Items
          /\ Len(image_queue) < QueueMax
          /\ image_queue' = Append(image_queue, <<label, DropName>>)
    /\ last' = Call("add_images", FALSE, "", 1)
    /\ handed' = {}
    /\ UNCHANGED <<index, mapping, disk, db_dir, batch, query, batches, ppc, pimgs, pcount,
                   committed, phase, wpc, searchVars, concVars, regVars, procVars, rwVars>>

\* _process_images(images, labels, "A"): embed, _get_db (a new VectorDB makes
\* the directory and loads or starts the store), add_items with its save;
\* whatever is raised is logged.  The outcomes:
\* [reg, index, mapping, disk, dir, raised]
process_on_store(labels) ==
    LET e == embed_images(labels, DropName)
        here == [reg |-> databases[DropName], index |-> index, mapping |-> mapping,
                 disk |-> disk, dir |-> db_dir, raised |-> e.raised]
    IN IF e.raised # "" THEN {here}
       ELSE LET ld == IF databases[DropName] = 0 THEN load_db(disk)
                      ELSE [raised |-> "", index |-> index, mapping |-> mapping]
            IN IF ld.raised # "" THEN {[here EXCEPT !.dir = TRUE, !.raised = ld.raised]}
               ELSE {[reg |-> 1, index |-> o.index, mapping |-> o.mapping,
                      disk |-> o.disk, dir |-> TRUE, raised |-> o.raised]
                     : o \in add_items([index |-> ld.index, mapping |-> ld.mapping,
                                        disk |-> disk], labels, e.features, TRUE)}

ApplyOnStore(r) ==
    /\ databases' = [databases EXCEPT ![DropName] = r.reg]
    /\ index' = r.index
    /\ mapping' = r.mapping
    /\ disk' = r.disk
    /\ db_dir' = r.dir

\* _process_queue, lines 120-129, with the store the batch goes to
DropWorkerGet ==
    /\ image_queue # <<>>
    /\ LET label == Head(image_queue)[1]
           batch_labels == Append(batches[DropName], label)
       IN /\ image_queue' = Tail(image_queue)
          /\ IF Len(batch_labels) >= BATCH_SIZE
             THEN /\ \E r \in process_on_store(batch_labels) :
                        /\ ApplyOnStore(r)
                        /\ handed' = {[db_name |-> DropName, labels |-> batch_labels,
                                       failed |-> r.raised # ""]}
                  /\ batches' = [batches EXCEPT ![DropName] = <<>>]
             ELSE /\ batches' = [batches EXCEPT ![DropName] = batch_labels]
                  /\ handed' = {}
                  /\ UNCHANGED <<databases, index, mapping, disk, db_dir>>
    /\ UNCHANGED <<last, batch, query, ppc, pimgs, pcount, committed, phase, wpc,
                   created, getdb, searchVars, concVars, procVars, rwVars>>

\* _process_queue, lines 131-136, with the store the batch goes to
DropWorkerTimeout ==
    /\ image_queue = <<>>
    /\ batches[DropName] # <<>>
    /\ \E r \in process_on_store(batches[DropName]) :
          /\ ApplyOnStore(r)
          /\ handed' = {[db_name |-> DropName, labels |-> batches[DropName],
                         failed |-> r.raised # ""]}
    /\ batches' = [batches EXCEPT ![DropName] = <<>>]
    /\ UNCHANGED <<image_queue, last, batch, query, ppc, pimgs, pcount, committed, phase,
                   wpc, created, getdb, searchVars, concVars, procVars, rwVars>>

\* handle_drop_db("A"): the instance leaves the registry, VectorDB.drop removes
\* the directory if there is one (rm_ok: rmtree raised no OSError) and tells so
DropDbCall ==
    /\ databases' = [databases EXCEPT ![DropName] = 0]
    /\ index' = new_index(CAPACITY)
    /\ mapping' = EmptyMapping
    /\ \E rm_ok \in BOOLEAN :
          IF db_dir /\ rm_ok
          THEN /\ disk' = NoDisk
               /\ db_dir' = FALSE
               /\ last' = Call("drop", FALSE, "", 1)
          ELSE /\ UNCHANGED <<disk, db_dir>>
               /\ last' = Call("drop", FALSE, "", 0)
    /\ handed' = {}
    /\ UNCHANGED <<batch, query, image_queue, batches, ppc, pimgs, pcount, committed, phase,
                   wpc, created, getdb, searchVars, concVars, procVars, rwVars>>

DropNext ==
    \/ DropAddImage
    \/ DropWorkerGet
    \/ DropWorkerTimeout
    \/ DropDbCall

(***************************************************************************)
(* Server.run() and Server.cleanup() of server processes that share one    *)
(* base directory: its pid file and its Unix socket.  A process is named   *)
(* by its pid.                                                             *)
(***************************************************************************)
Servers == 1..NServers

ProcInit ==
    /\ pid_file = 0
    /\ uds = 0
    /\ srv = [p \in Servers |-> "none"]

\* is_running(): the pid file names a process that os.kill(pid, 0) finds
is_running == pid_file # 0 /\ srv[pid_file] = "serving"

\* cleanup(), lines 511-519: the socket file is unlinked if it is a socket,
\* the pid file if it exists, whoever made them
cleanup(p) ==
    /\ uds' = 0
    /\ pid_file' = 0

\* run() in process p, up to the request loop: a server found running ends
\* the call by `return` inside the try, so that the finally runs cleanup();
\* else create_daemon replaces the socket file and the pid file is written
Run(p) ==
    /\ srv[p] # "serving"
    /\ IF is_running
       THEN /\ cleanup(p)
            /\ srv' = [srv EXCEPT ![p] = "refused"]
       ELSE /\ uds' = p
            /\ pid_file' = p
            /\ srv' = [srv EXCEPT ![p] = "serving"]
    /\ UNCHANGED <<storeVars, searchVars, ingestVars, concVars, regVars, rwVars>>

\* SIGTERM or SIGINT ends the request loop of p: the finally runs cleanup()
Stop(p) ==
    /\ srv[p] = "serving"
    /\ cleanup(p)
    /\ srv' = [srv EXCEPT ![p] = "stopped"]
    /\ UNCHANGED <<storeVars, searchVars, ingestVars, concVars, regVars, rwVars>>

\* SIGKILL: p ends without its finally
Kill(p) ==
    /\ srv[p] = "serving"
    /\ srv' = [srv EXCEPT ![p] = "killed"]
    /\ UNCHANGED <<pid_file, uds, storeVars, searchVars, ingestVars, concVars, regVars, rwVars>>

ProcNext ==
    \E p \in Servers :
        \/ Run(p)
        \/ Stop(p)
        \/ Kill(p)

(***************************************************************************)
(* ifinder's ReadWriteLock: a Condition over a Lock and a count of         *)
(* readers.  Every statement of its four methods is a step.                *)
(***************************************************************************)
LockThreads == 1..NLockThreads

RWInit ==
    /\ rw_mutex = 0
    /\ readers = 0
    /\ rwpc = [t \in LockThreads |-> "idle"]

\* an acquire_write that returns without waiting for the readers to leave
never_wait(n) == FALSE

\* acquire_write, line 55: while self._readers > 0
must_wait(n) == n > 0

\* a handler calls acquire_read (search, get_db_info, compare_images) or
\* acquire_write (add_images, clear_db)
RWCall(t) ==
    /\ rwpc[t] = "idle"
    /\ \E m \in {"ar_lock", "aw_lock"} : rwpc' = [rwpc EXCEPT ![t] = m]
    /\ UNCHANGED <<rw_mutex, readers, storeVars, searchVars, ingestVars, concVars, regVars, procVars>>

\* self._read_ready.acquire() of acquire_read (ar), release_read (rr) and
\* acquire_write (aw), and the re-acquire that ends a wait() (woken)
RWLock(t) ==
    /\ rwpc[t] \in {"ar_lock", "rr_lock", "aw_lock", "woken"}
    /\ rw_mutex = 0
    /\ rw_mutex' = t
    /\ rwpc' = [rwpc EXCEPT ![t] =
                   CASE rwpc[t] = "ar_lock" -> "ar_inc"
                     [] rwpc[t] = "rr_lock" -> "rr_dec"
                     [] OTHER -> "aw_check"]
    /\ UNCHANGED <<readers, storeVars, searchVars, ingestVars, concVars, regVars, procVars>>

\* acquire_read, line 40: self._readers += 1
RWInc(t) ==
    /\ rwpc[t] = "ar_inc"
    /\ readers' = readers + 1
    /\ rwpc' = [rwpc EXCEPT ![t] = "ar_unlock"]
    /\ UNCHANGED <<rw_mutex, storeVars, searchVars, ingestVars, concVars, regVars, procVars>>

\* release_read, lines 47-49: self._readers -= 1, and notify_all() at zero:
\* every thread in wait() is woken
RWDec(t) ==
    /\ rwpc[t] = "rr_dec"
    /\ readers' = readers - 1
    /\ rwpc' = [u \in LockThreads |->
                   IF u = t THEN "rr_unlock"
                   ELSE IF readers - 1 = 0 /\ rwpc[u] = "waiting" THEN "woken"
                   ELSE rwpc[u]]
    /\ UNCHANGED <<rw_mutex, storeVars, searchVars, ingestVars, concVars, regVars, procVars>>

\* the release() in the finally of acquire_read and of release_read
RWUnlock(t) ==
    /\ rwpc[t] \in {"ar_unlock", "rr_unlock"}
    /\ rw_mutex' = 0
    /\ rwpc' = [rwpc EXCEPT ![t] = IF rwpc[t] = "ar_unlock" THEN "reading" ELSE "idle"]
    /\ UNCHANGED <<readers, storeVars, searchVars, ingestVars, concVars, regVars, procVars>>

\* the handler's finally: release_read() after the read section
RWEndRead(t) ==
    /\ rwpc[t] = "reading"
    /\ rwpc' = [rwpc EXCEPT ![t] = "rr_lock"]
    /\ UNCHANGED <<rw_mutex, readers, storeVars, searchVars, ingestVars, concVars, regVars, procVars>>

\* acquire_write, lines 55-56: with readers inside, wait() gives the lock up
\* and sleeps; else acquire_write returns with the lock held
RWCheck(t) ==
    /\ rwpc[t] = "aw_check"
    /\ IF must_wait(readers)
       THEN /\ rw_mutex' = 0
            /\ rwpc' = [rwpc EXCEPT ![t] = "waiting"]
       ELSE /\ rwpc' = [rwpc EXCEPT ![t] = "writing"]
            /\ UNCHANGED rw_mutex
    /\ UNCHANGED <<readers, storeVars, searchVars, ingestVars, concVars, regVars, procVars>>

\* the handler's finally: release_write(), line 59
RWEndWrite(t) ==
    /\ rwpc[t] = "writing"
    /\ rw_mutex' = 0
    /\ rwpc' = [rwpc EXCEPT ![t] = "idle"]
    /\ UNCHANGED <<readers, storeVars, searchVars, ingestVars, concVars, regVars, procVars>>

RWNext ==
    \E t \in LockThreads :
        \/ RWCall(t)
        \/ RWLock(t)
        \/ RWInc(t)
        \/ RWDec(t)
        \/ RWUnlock(t)
        \/ RWEndRead(t)
        \/ RWCheck(t)
        \/ RWEndWrite(t)

Init == StoreInit /\ SearchInit /\ IngestInit /\ ConcInit /\ RegInit /\ ProcInit /\ RWInit

Spec == Init /\ [][StoreNext]_vars

SpecNoRebuild == Init /\ [][NoRebuildNext]_vars

SpecBatch == Init /\ [][BatchNext]_vars

SpecQuery == Init /\ [][QueryNext]_vars

SpecFiles == Init /\ [][FilesNext]_vars

SpecCrash == Init /\ [][CrashNext]_vars

SpecDrop == Init /\ [][DropNext]_vars

SpecServer == Init /\ [][ProcNext]_vars

SpecRWLock == Init /\ [][RWNext]_vars

SpecSearch == Init /\ [][SearchNext]_vars

SpecIngest == Init /\ [][IngestNext]_vars

SpecRunning == Init /\ [][RunningNext]_vars

SpecConc == Init /\ [][ConcNext]_vars

SpecRegistry == Init /\ [][RegNext]_vars

\* the worker thread is scheduled whenever it can run: it takes an item that
\* waits in the queue, and its timed get expires if the queue stays empty
FairIngest == SpecIngest /\ WF_vars(WorkerGet) /\ WF_vars(WorkerTimeout)

FairRunning == SpecRunning /\ WF_vars(WorkerGet) /\ WF_vars(WorkerTimeout)

(***************************************************************************)
(* Claims about the store.                                                 *)
(***************************************************************************)
IsAdd(c) == c.op \in {"add_item", "add_items"}

\* C1: over add_item/add_items and delete(rebuild=False), an add never takes a
\* key from a live label: every label of the mapping before the add is still
\* there afterwards under the same key, and every key still names its label.
\* (Stated for adds that start with mapping and index in agreement, so that a
\* violation does not rest on an earlier call that raised half-way.)
C1_AddKeepsLiveKeys ==
    [][(IsAdd(last') /\ DKeys(mapping.fwd) = LiveKeys(index)) =>
        /\ \A l \in DKeys(mapping.inv) :
              DHas(mapping'.inv, l) /\ DGet(mapping'.inv, l) = DGet(mapping.inv, l)
        /\ \A k \in DKeys(mapping.fwd) :
              DHas(mapping'.fwd, k) /\ DGet(mapping'.fwd, k) = DGet(mapping.fwd, k)]_vars

\* C2: after every Store operation, returned or raised, the keys of the
\* mapping are the live keys of the index and len(mapping) is its live count.
C2_MappingMatchesIndex ==
    /\ DKeys(mapping.fwd) = LiveKeys(index)
    /\ Len(mapping.fwd) = LiveCount(index)

\* C3: key -> label and label -> key are mutual inverses, and neither holds a
\* key or a label twice.
C3_Bijection ==
    /\ \A i \in DOMAIN mapping.fwd :
          /\ DHas(mapping.inv, mapping.fwd[i][2])
          /\ DGet(mapping.inv, mapping.fwd[i][2]) = mapping.fwd[i][1]
    /\ \A i \in DOMAIN mapping.inv :
          /\ DHas(mapping.fwd, mapping.inv[i][2])
          /\ DGet(mapping.fwd, mapping.inv[i][2]) = mapping.inv[i][1]
    /\ Cardinality(DKeys(mapping.fwd)) = Len(mapping.fwd)
    /\ Cardinality(DKeys(mapping.inv)) = Len(mapping.inv)

\* after an add into a reused tombstoned slot the mapping holds two entries
\* and a key above the number of index slots: the next add overwrites it
C3_Witness ==
    /\ IsAdd(last) /\ last.raised = "" /\ last.ret >= 1
    /\ Len(mapping.fwd) >= 2
    /\ DKeys(mapping.fwd) = LiveKeys(index)
    /\ \E k \in DKeys(mapping.fwd) : k > element_count(index)

(***************************************************************************)
(* Claims about search admission.                                          *)
(***************************************************************************)
InFlight == {t \in Threads : spc[t] \in {"try", "finally"}}

\* C4: the searches past admission and not yet returned never outnumber the
\* permits, max(2, BATCH_SIZE // 2).
C4_AdmittedWithinPermits == Cardinality(InFlight) <= max_concurrent_searches

\* the gate is full and a further caller has just been turned away
C4_Witness ==
    /\ Cardinality(InFlight) = max_concurrent_searches
    /\ \E t \in Threads : spc[t] = "returned" /\ sres[t].outcome = "rejected"

\* C5: a call made with no permit left returns None in that same step, never
\* [] and never an exception; and None is returned by rejected calls only.
C5_RejectIsNoneAtOnce ==
    /\ [](\A t \in Threads :
             spc[t] = "returned" => (sres[t].value = "None" <=> ~sadm[t]))
    /\ [][\A t \in Threads :
             (spc[t] = "idle" /\ spc'[t] # "idle") =>
                 IF sem = 0
                 THEN spc'[t] = "returned" /\ sres'[t].value = "None" /\ sem' = 0
                 ELSE spc'[t] = "try" /\ sadm'[t]]_vars

\* one caller holds None while an admitted one holds a list
C5_Witness ==
    \E t, u \in Threads :
        /\ spc[t] = "returned" /\ sres[t].value = "None" /\ ~sadm[t]
        /\ spc[u] = "returned" /\ sadm[u] /\ sres[u].value = "[]"

\* C6: every admitted search gives its permit back exactly once whatever way
\* it leaves, a rejected one gives none back: free permits plus searches in
\* flight is the configured count, so with no search in flight all are free.
C6_PermitsConserved ==
    /\ sem + Cardinality(InFlight) = max_concurrent_searches
    /\ sem <= max_concurrent_searches

\* all permits are free again after an invalid query, a failed search and a
\* rejected call have all returned
C6_Witness ==
    /\ InFlight = {} /\ sem = max_concurrent_searches
    /\ \E t, u, w \in Threads :
          /\ spc[t] = "returned" /\ sres[t].outcome = "bad_query"
          /\ spc[u] = "returned" /\ sres[u].outcome = "error"
          /\ spc[w] = "returned" /\ sres[w].outcome = "rejected"

\* C7: a search that failed with an error returns something else than the []
\* of a search that found nothing and than the None of a rejected one.
C7_ErrorIsDistinct ==
    \A t \in Threads :
        (spc[t] = "returned" /\ sres[t].outcome = "error") =>
            sres[t].value \notin {"[]", "None"}

(***************************************************************************)
(* Claims about the ingestion pipeline.                                    *)
(***************************************************************************)
\* C8: handle_add_images never blocks its caller: a handler that is running
\* can always take its next step, also with the queue full, and when it finds
\* the queue full it returns at once with the number of items it queued.
C8_AddImagesNeverBlocks ==
    \A p \in Producers :
        (phase = "running" /\ ppc[p] \in {"loop", "put"}) => ENABLED AddImagesStep(p)

\* C9: with the worker scheduled fairly, a batch that holds items is processed
\* in the end, whatever the producers do, as long as the server runs.
C9_BatchEventuallyProcessed ==
    \A d \in DBNames :
        (batches[d] # <<>>) ~> (batches[d] = <<>> \/ phase # "running")

\* C10: when the server process has ended after a shutdown, nothing accepted
\* is left in the queue or in a batch: all of it was processed before.
C10_ShutdownDrains ==
    phase = "exited" => (image_queue = <<>> /\ \A d \in DBNames : batches[d] = <<>>)

\* the labels _process_images is called with for db_name d in this step of the
\* worker (<<>> if it is not called for d)
Processed(d) ==
    IF image_queue # <<>>
    THEN IF Head(image_queue)[2] = d /\ Len(batches[d]) + 1 >= BATCH_SIZE
         THEN Append(batches[d], Head(image_queue)[1])
         ELSE <<>>
    ELSE batches[d]

\* C11: when a batch is processed in which one image cannot be embedded, the
\* other items of that batch, whose images are sound, are in the store
\* afterwards.  (Stated for batches without a repeated label, so that the only
\* item at fault is the one with the broken image.)
C11_ValidItemsSurvive ==
    [][\A d \in DBNames :
          LET labels == Processed(d)
          IN (phase # "exited" /\ batches' # batches /\ NoDup(labels)
                /\ \E i \in DOMAIN labels : <<labels[i], d>> \in Truncated) =>
                 \A i \in DOMAIN labels :
                     <<labels[i], d>> \notin Truncated => labels[i] \in committed'[d]]_vars

C13_SearchSeesOneGeneration ==
    \A t \in Callers :
        (calls[t].todo = <<>> /\ calls[t].raised = "") =>
            \A p \in calls[t].ret :
                p[2] = (1 - Distance(SearchFeature, VecOf[p[1]])) * 100

(***************************************************************************)
(* Claims about the registry of stores.                                    *)
(***************************************************************************)
\* C14: while a name is registered no second instance takes its place: the
\* instance registered for a name changes only by the name being dropped, so
\* every caller of _get_db for that name works on the same instance.
C14_OneInstancePerName ==
    [][\A n \in DBNames :
          (databases[n] # 0 /\ databases'[n] # 0) => databases'[n] = databases[n]]_vars

(***************************************************************************)
(* Claims about add.                                                       *)
(***************************************************************************)
\* C15: no add fails for lack of room in the index (the only RuntimeError an
\* insert with replace_deleted can raise is hnswlib's "number of elements
\* exceeds the specified limit"); the number of entries never exceeds the
\* capacity; and the capacity never goes down except by clear (or by loading
\* the saved files).
C15_AddNeverLacksRoom ==
    /\ [](IsAdd(last) => last.raised # "RuntimeError")
    /\ [](count(theDB) <= capacity(theDB))
    /\ [][last'.op \notin {"clear", "load"} =>
             index'.max_elements >= index.max_elements]_vars

\* mapping and index agree: the state every call that returned leaves when
\* the store works as meant
Consistent ==
    /\ DKeys(mapping.fwd) = LiveKeys(index)
    /\ Len(mapping.fwd) = LiveCount(index)

\* C16: an add with overwrite=true whose labels are all present already (it
\* wrote something and left the mapping as it was) updates in place: the
\* capacity, the next key, the live keys and the number of live elements of
\* the index are what they were.
C16_OverwriteInPlace ==
    [][(/\ IsAdd(last') /\ last'.flag /\ last'.raised = "" /\ last'.ret >= 1
        /\ mapping' = mapping
        /\ Consistent) =>
           /\ index'.max_elements = index.max_elements
           /\ element_count(index') = element_count(index)
           /\ LiveKeys(index') = LiveKeys(index)
           /\ LiveCount(index') = LiveCount(index)]_vars

\* the step is a call of add_items that got past the length check and returned
BatchReturned ==
    /\ last'.op = "add_items" /\ last'.raised = ""
    /\ Len(batch'.labels) = Len(batch'.features)
    /\ NoDup(batch'.labels)

\* what index.get_items([k]) gives
VecAt(ix, k) == GetItems(ix, <<k>>)[1]

\* no tombstone awaits reuse and no key lies above the element count: the keys
\* the next add takes are free
KeysFresh ==
    /\ Vacant(index) = {}
    /\ \A k \in DKeys(mapping.fwd) : k <= element_count(index)

\* C17: after add_items with overwrite=true on a batch with labels that are
\* present already, every label of the batch, present before or new, has the
\* vector the call paired it with (labels[i] has features[i]), and the labels
\* outside the batch have the vector they had.  (Stated for calls that start
\* with free keys, so that a violation does not rest on a reused key.)
C17_OverwritePairsByPosition ==
    [][(/\ BatchReturned /\ last'.flag /\ Consistent /\ KeysFresh
        /\ \E i \in DOMAIN batch'.labels : DHas(mapping.inv, batch'.labels[i])) =>
           /\ \A i \in DOMAIN batch'.labels :
                 /\ DHas(mapping'.inv, batch'.labels[i])
                 /\ DGet(mapping'.inv, batch'.labels[i]) \in LiveKeys(index')
                 /\ VecAt(index', DGet(mapping'.inv, batch'.labels[i])) = batch'.features[i]
           /\ \A l \in DKeys(mapping.inv) \ Range(batch'.labels) :
                 /\ DHas(mapping'.inv, l)
                 /\ DGet(mapping'.inv, l) \in LiveKeys(index')
                 /\ VecAt(index', DGet(mapping'.inv, l)) = VecAt(index, DGet(mapping.inv, l))]_vars

\* C18: add_items returns the number of labels of the batch present before
\* (when overwrite, else 0) plus the number of new ones; without overwrite the
\* present labels keep key and vector, and the new labels are added all the same.
C18_ReturnsWrittenCount ==
    [][(BatchReturned /\ Consistent) =>
          LET present == {i \in DOMAIN batch'.labels : DHas(mapping.inv, batch'.labels[i])}
              new == DOMAIN batch'.labels \ present
          IN /\ last'.ret = (IF last'.flag THEN Cardinality(present) ELSE 0) + Cardinality(new)
             /\ ~last'.flag =>
                   \A i \in present :
                       LET l == batch'.labels[i]
                       IN /\ DHas(mapping'.inv, l)
                          /\ DGet(mapping'.inv, l) = DGet(mapping.inv, l)
                          /\ DGet(mapping'.inv, l) \in LiveKeys(index')
                          /\ VecAt(index', DGet(mapping'.inv, l)) = VecAt(index, DGet(mapping.inv, l))
             /\ \A i \in new : DHas(mapping'.inv, batch'.labels[i])]_vars

\* C19: add_items with labels and features of different lengths raises
\* ValueError and changes nothing: index (capacity included), mapping and the
\* files are what they were.
C19_LengthMismatchRejected ==
    [][(last'.op = "add_items" /\ Len(batch'.labels) # Len(batch'.features)) =>
           /\ last'.raised = "ValueError"
           /\ index' = index
           /\ mapping' = mapping
           /\ disk' = disk]_vars

\* a call with one label and two vectors was refused by a store that holds
\* entries and has been saved
C19_Witness ==
    /\ last.op = "add_items" /\ last.raised = "ValueError"
    /\ Len(batch.labels) = 1 /\ Len(batch.features) = 2
    /\ mapping.fwd # <<>> /\ BothFiles(disk)

\* C20: add_items([], []) raises ValueError.
C20_EmptyBatchRejected ==
    (last.op = "add_items" /\ batch.labels = <<>> /\ batch.features = <<>>) =>
        last.raised = "ValueError"

(***************************************************************************)
(* Claims about search.                                                    *)
(***************************************************************************)
\* C21: search with a similarity below 0 or above 100 raises ValueError,
\* whatever the store holds (nothing included) and whatever the query vector.
C21_InvalidThresholdRaises ==
    (last.op = "search" /\ (query.similarity < Pct(0) \/ query.similarity > Pct(100))) =>
        last.raised = "ValueError"

\* the threshold of the last search is within 0..100
ValidThreshold == query.similarity >= Pct(0) /\ query.similarity <= Pct(100)

\* C22: a search with a valid threshold returns at most k results, each with a
\* similarity within 0..100 and not below the threshold, the highest first.
C22_ResultsBoundedAndSorted ==
    (last.op = "search" /\ last.raised = "" /\ ValidThreshold) =>
        /\ Len(query.results) <= query.k
        /\ \A i \in DOMAIN query.results :
              /\ query.results[i][2] >= Pct(0)
              /\ query.results[i][2] <= Pct(100)
              /\ query.results[i][2] >= query.similarity
        /\ \A i, j \in DOMAIN query.results :
              i < j => query.results[i][2] >= query.results[j][2]

\* two results of different similarity, both above a threshold of 50
C22_Witness ==
    /\ last.op = "search" /\ last.raised = ""
    /\ query.similarity = Pct(50)
    /\ Len(query.v_ids) = 2
    /\ Len(query.results) = 2
    /\ query.results[1][2] > query.results[2][2]

\* the rows of the last index query whose key has a mapping entry
KnownRows == {i \in DOMAIN query.v_ids : DHas(mapping.fwd, query.v_ids[i][1])}

\* C23: a search with similarity 0 filters nothing: every row the index
\* returned whose key has a mapping entry is a result, whatever its distance.
C23_ZeroThresholdKeepsAll ==
    (last.op = "search" /\ last.raised = "" /\ query.similarity = Pct(0)) =>
        /\ Len(query.results) = Cardinality(KnownRows)
        /\ \A i \in KnownRows :
              \E j \in DOMAIN query.results :
                  query.results[j][1] = DGet(mapping.fwd, query.v_ids[i][1])

\* C24: with a valid threshold, a search on a store without entries or with an
\* empty query vector returns [] and does not query the index; on a store
\* with entries it asks the index for min(k, count) neighbours and does not
\* fail, and when k is not below the count every entry of the store is among
\* the neighbours it gets.
C24_EmptyAndLargeK ==
    (last.op = "search" /\ ValidThreshold) =>
        IF count(theDB) = 0 \/ query.feature = <<>>
        THEN last.raised = "" /\ query.results = <<>> /\ query.search_k = -1
        ELSE /\ query.search_k = Min(query.k, count(theDB))
             /\ last.raised = ""
             /\ query.k >= count(theDB) =>
                   \A k \in DKeys(mapping.fwd) :
                       \E i \in DOMAIN query.v_ids : query.v_ids[i][1] = k

(***************************************************************************)
(* Claims about delete, rebuild, clear, save and load.                     *)
(***************************************************************************)
\* the step is a delete whose keys are labels, each once, all present
DeletesPresent ==
    /\ last'.op = "delete"
    /\ \A i \in DOMAIN batch'.labels :
          ~batch'.labels[i].int /\ DHas(mapping.inv, batch'.labels[i].label)
    /\ \A i, j \in DOMAIN batch'.labels : i # j => batch'.labels[i] # batch'.labels[j]

DeletedLabels == {batch'.labels[i].label : i \in DOMAIN batch'.labels}

\* C25: a delete of n distinct present labels, with or without rebuild,
\* returns, lowers the count by n, removes those labels from the mapping and
\* leaves every other label with its vector; a search returns only labels the
\* mapping holds, and a neighbour whose key has no mapping entry is passed
\* over without an error.
C25_DeleteRemoves ==
    /\ [][DeletesPresent =>
             /\ last'.raised = ""
             /\ Len(mapping'.fwd) = Len(mapping.fwd) - Len(batch'.labels)
             /\ \A l \in DeletedLabels : ~DHas(mapping'.inv, l)
             /\ \A l \in DKeys(mapping.inv) \ DeletedLabels :
                   /\ DHas(mapping'.inv, l)
                   /\ DGet(mapping.inv, l) \in LiveKeys(index) =>
                         /\ DGet(mapping'.inv, l) \in LiveKeys(index')
                         /\ VecAt(index', DGet(mapping'.inv, l))
                                = VecAt(index, DGet(mapping.inv, l))]_vars
    /\ [](last.op = "search" =>
             /\ \A i \in DOMAIN query.results : DHas(mapping.inv, query.results[i][1])
             /\ query.v_ids # <<>> => last.raised = "")

\* the key names nothing the mapping holds
Absent(key) ==
    IF key.int THEN ~DHas(mapping.fwd, key.id) ELSE ~DHas(mapping.inv, key.label)

\* C26: a delete whose keys include one that is not in the store raises and
\* removes nothing: index, mapping and files are what they were.  (Stated for
\* calls that start with mapping and index in agreement.)
C26_DeleteAllOrNothing ==
    [][(/\ last'.op = "delete" /\ Consistent
        /\ \E i \in DOMAIN batch'.labels : Absent(batch'.labels[i])) =>
           /\ last'.raised # ""
           /\ index' = index
           /\ mapping' = mapping
           /\ disk' = disk]_vars

\* C27: rebuild() on a store with n entries returns and leaves the keys 1..n,
\* the same labels, every label with the vector it had, no tombstone and no
\* further element in the index, the same capacity and n + 1 as next key.
C27_RebuildCompacts ==
    [][last'.op = "rebuild" =>
          LET n == Len(mapping.fwd)
          IN /\ last'.raised = ""
             /\ DKeys(mapping'.fwd) = 1..n
             /\ Len(mapping'.fwd) = n
             /\ DKeys(mapping'.inv) = DKeys(mapping.inv)
             /\ LiveKeys(index') = 1..n
             /\ \A l \in DKeys(mapping.inv) :
                   DGet(mapping.inv, l) \in LiveKeys(index) =>
                       VecAt(index', DGet(mapping'.inv, l)) = VecAt(index, DGet(mapping.inv, l))
             /\ Vacant(index') = {}
             /\ element_count(index') = n
             /\ index'.max_elements = index.max_elements
             /\ next_id([index |-> index', mapping |-> mapping', disk |-> disk']) = n + 1]_vars

\* what a new VectorDB over the files would hold
Loaded == load_db(disk)

\* C28: after clear() the store has no entry, an empty mapping, the default
\* capacity and 1 as next key, and a fresh load of its files gives that same
\* empty store.
C28_ClearResets ==
    last.op = "clear" =>
        /\ last.raised = ""
        /\ count(theDB) = 0
        /\ mapping = EmptyMapping
        /\ LiveCount(index) = 0
        /\ capacity(theDB) = CAPACITY
        /\ next_id(theDB) = 1
        /\ BothFiles(disk)
        /\ Loaded.raised = ""
        /\ Loaded.index = index
        /\ Loaded.mapping = mapping

\* the store was cleared and its files hold the empty store
C28_Witness ==
    /\ last.op = "clear" /\ last.raised = ""
    /\ disk = SavedDisk(new_index(CAPACITY), EmptyMapping)
    /\ element_count(index) = 0

\* C29: after save(), a fresh load of the files does not raise and gives the
\* store that was saved: the same key -> label mapping, the same count, the
\* same next key, and for every label the vector it had.  (Stated for stores
\* whose mapping and index agree, so that a violation does not rest on an
\* earlier call that raised half-way.)
C29_SaveLoadRoundTrip ==
    (last.op = "save" /\ Consistent) =>
        /\ Loaded.raised = ""
        /\ \A k \in DKeys(mapping.fwd) :
              DHas(Loaded.mapping.fwd, k) /\ DGet(Loaded.mapping.fwd, k) = DGet(mapping.fwd, k)
        /\ Len(Loaded.mapping.fwd) = Len(mapping.fwd)
        /\ element_count(Loaded.index) + 1 = next_id(theDB)
        /\ \A k \in DKeys(mapping.fwd) :
              k \in LiveKeys(index) =>
                  /\ k \in LiveKeys(Loaded.index)
                  /\ VecAt(Loaded.index, k) = VecAt(index, k)

\* C30: load_db raises ValueError on every pair of files in which the number
\* of live elements of the index differs from the size of the mapping.
C30_LoadRejectsMismatch ==
    (/\ last.op = "load" /\ BothFiles(disk)
     /\ LiveCount(load_index(disk.index)) # Len(disk.mapping.fwd)) =>
        last.raised = "ValueError"

\* C31: load_db of a directory that holds one of the two files only raises
\* OSError and leaves the directory as it is; with neither file it returns a
\* new empty store with the default capacity and next key 1, and writes no
\* file.
C31_LoadNeedsBothFiles ==
    /\ [](last.op = "load" =>
             /\ disk.has_index # disk.has_mapping => last.raised = "OSError"
             /\ (~disk.has_index /\ ~disk.has_mapping) =>
                   /\ last.raised = ""
                   /\ mapping = EmptyMapping
                   /\ element_count(index) = 0
                   /\ capacity(theDB) = CAPACITY
                   /\ next_id(theDB) = 1)
    /\ [][last'.op = "load" => disk' = disk]_vars

\* a load was refused over a directory that holds an index file and no mapping
C31_Witness ==
    /\ last.op = "load" /\ last.raised = "OSError"
    /\ disk.has_index /\ ~disk.has_mapping
    /\ disk.index.slots # <<>>

\* the last call changed the store and returned
Mutated ==
    /\ last.op \in {"add_item", "add_items", "delete", "clear", "rebuild"}
    /\ last.raised = ""
    /\ IsAdd(last) => last.ret >= 1

\* C32: after every add that wrote an entry, delete, clear and rebuild that
\* returned, the files describe the store in memory: a fresh load gives the
\* same mapping and the same live keys.  An add that writes nothing leaves
\* memory and files as they were.  (The first part is stated for stores whose
\* mapping and index agree, so that a violation does not rest on an earlier
\* call that raised half-way.)
C32_FilesFollowMemory ==
    /\ []((Mutated /\ Consistent) =>
             /\ Loaded.raised = ""
             /\ DKeys(Loaded.mapping.fwd) = DKeys(mapping.fwd)
             /\ \A k \in DKeys(mapping.fwd) :
                   DGet(Loaded.mapping.fwd, k) = DGet(mapping.fwd, k)
             /\ LiveKeys(Loaded.index) = LiveKeys(index))
    /\ [][(IsAdd(last') /\ last'.raised = "" /\ last'.ret = 0) =>
             /\ index' = index
             /\ mapping' = mapping
             /\ disk' = disk]_vars

\* C33: persistence is crash-consistent.  When a load does not raise, the keys
\* of the loaded mapping are the live keys of the loaded index and every label
\* is paired with its own vector, also after a process stopped between the
\* two writes of save().
C33_CrashConsistent ==
    (last.op = "load" /\ last.raised = "") =>
        /\ DKeys(mapping.fwd) = LiveKeys(index)
        /\ \A k \in DKeys(mapping.fwd) :
              VecAt(index, k) = OwnVector(DGet(mapping.fwd, k))

\* the labels accepted for store d and not yet given to _process_images, in
\* the order the worker takes them
QueuedFor(q, d) ==
    LET its == SelectSeq(q, LAMBDA it : it[2] = d)
    IN [i \in DOMAIN its |-> its[i][1]]

Pending(d) == batches[d] \o QueuedFor(image_queue, d)

IsPrefix(s, t) == Len(s) <= Len(t) /\ SubSeq(t, 1, Len(s)) = s

\* C34: the worker gives every item it takes to _process_images once, in a
\* batch of its own store, in the order taken, of at most BATCH_SIZE items,
\* and the labels a step commits go to that store.  A batch never waits with
\* BATCH_SIZE items; a batch is given when it is full or when the timed read
\* of the queue failed; the items waiting for a store are taken off only by
\* the batch given for that store, which is their first items in order.
C34_BatchedOncePerStore ==
    [][/\ \A d \in DBNames : Len(batches'[d]) < BATCH_SIZE
       /\ \A h \in handed' : Len(h.labels) \in 1..BATCH_SIZE
       /\ \A h, g \in handed' : h.db_name = g.db_name => h = g
       /\ \A d \in DBNames :
             IF \E h \in handed' : h.db_name = d
             THEN \E h \in handed' :
                     /\ h.db_name = d
                     /\ h.labels \o Pending(d)' = Pending(d)
                     /\ committed'[d] \ committed[d] \subseteq Range(h.labels)
             ELSE /\ IsPrefix(Pending(d), Pending(d)')
                  /\ committed'[d] = committed[d]
       /\ handed' # {} =>
             \/ image_queue = <<>> /\ batches' = [d \in DBNames |-> <<>>]
             \/ \E h \in handed' : Len(h.labels) = BATCH_SIZE /\ handed' = {h}]_vars

\* a full batch is given while further items wait in the queue
C34_Witness ==
    \E h \in handed :
        /\ Len(h.labels) = BATCH_SIZE
        /\ image_queue # <<>>
        /\ \E d \in DBNames : d # h.db_name /\ batches[d] # <<>>

C36_RepeatedLabelAccepted ==
    [][(/\ last'.op = "add_items"
        /\ Len(batch'.labels) = Len(batch'.features)
        /\ ~NoDup(batch'.labels)
        /\ Consistent) =>
           /\ last'.raised = ""
           /\ \A l \in Range(batch'.labels) :
                 /\ Cardinality({i \in DOMAIN mapping'.fwd : mapping'.fwd[i][2] = l}) = 1
                 /\ DHas(mapping'.inv, l)
                 /\ DGet(mapping'.inv, l) \in LiveKeys(index')
           /\ DKeys(mapping'.fwd) = LiveKeys(index')
           /\ Len(mapping'.fwd) = LiveCount(index')]_vars

\* C37: after handle_drop_db returned true, and as long as no caller has
\* submitted a new add since, the store stays dropped: neither its directory
\* nor its files exist and db_list does not find it, whatever waited in the
\* queue or in the worker's batch when it was dropped.
C37_DropStaysDropped ==
    (last.op = "drop" /\ last.ret = 1) =>
        /\ ~db_dir
        /\ ~disk.has_index /\ ~disk.has_mapping
        /\ ~db_list(disk, db_dir)

\* C38: a run() that finds a server running starts nothing and leaves the pid
\* file and the socket file of the running server where they are.
C38_SecondRunLeavesServer ==
    [][\A p \in Servers :
          (is_running /\ srv[p] # "serving" /\ srv'[p] = "refused") =>
              /\ pid_file' = pid_file
              /\ uds' = uds
              /\ is_running']_vars

\* the threads between the increment of acquire_read and the decrement of
\* release_read
InRead == {t \in LockThreads : rwpc[t] \in {"ar_unlock", "reading", "rr_lock", "rr_dec"}}

\* C39: while a thread is between the return of acquire_write and
\* release_write, the reader count is 0, no thread is in a read section and no
\* other thread holds the write lock; the reader count is the number of
\* threads that have entered and not left, so it is never negative.
C39_WriterExcludes ==
    /\ \A t \in LockThreads :
          rwpc[t] = "writing" =>
              /\ readers = 0
              /\ InRead = {}
              /\ rw_mutex = t
              /\ \A u \in LockThreads \ {t} : rwpc[u] # "writing"
    /\ readers = Cardinality(InRead)
    /\ readers >= 0

\* a writer is inside while a reader and another writer wait for the lock
C39_Witness ==
    \E t, u, v \in LockThreads :
        /\ rwpc[t] = "writing"
        /\ rwpc[u] = "ar_lock"
        /\ rwpc[v] = "aw_lock"

====
